---- MODULE Spec2Model ----
(***************************************************************************)
(* Model of the Liberation AI launcher (src/universal_launcher.py) and of  *)
(* the local proxy service (src/local_proxy_service.py), with the platform *)
(* object of src/liberation_ai_platform.py.                                *)
(*                                                                         *)
(* Text is modelled as a sequence of one-character strings, so that the    *)
(* substring, prefix and suffix tests of the code are computed and not     *)
(* assumed.  Host names inside a netstat line and the words TCP and        *)
(* LISTENING are kept as single symbols: they hold no ':' and no digit     *)
(* that the port test could match inside them.                             *)
(***************************************************************************)
EXTENDS Integers, Sequences, FiniteSets, TLC

VARIABLES
    config,      \* self.config of the launcher (read-only after load)
    procs,       \* operating system: process table, pid -> record
    socks,       \* operating system: socket table (listening and connected)
    processes,   \* self.processes: service name -> pid of the Popen handle
    termLog,     \* history: every terminate()/kill() request issued so far
    pc,          \* position of the launcher's caller (run() step, or idle)
    ret,         \* value returned by the last completed launcher call
    hist,        \* history: the launcher calls completed so far, in order
    chunks,      \* proxy: the chunk sequence the backend yields for a chat
    backlog,     \* proxy: accepted-by-the-OS connections waiting for the server
    serving,     \* proxy: the client the single server thread is handling
    conn,        \* proxy: per client, the state of its connection and request
    platform_status,  \* LocalAIPlatform: self.status, a dict
    service      \* LiberationAIProxyService: running, server and the servers made

launcherVars == <<config, procs, socks, processes, termLog, pc, ret, hist>>
proxyVars == <<chunks, backlog, serving, conn>>
objectVars == <<platform_status, service>>
vars == <<config, procs, socks, processes, termLog, pc, ret, hist,
          chunks, backlog, serving, conn, platform_status, service>>

(***************************************************************************)
(* Bounds of the model.                                                    *)
(***************************************************************************)
MaxSocks == 2
MaxLen == 3
MaxPatterns == 2
MaxServices == 2
MaxCalls == 2
MaxChunks == 3
MaxServiceCalls == 4

\* The pid of a connection whose owner is unknown (conn.pid is None).
NoPid == 0
\* The pids of the processes that exist before the launcher starts anything,
\* and all the pids the model uses (one fresh pid per spawned service).
ExternalPids == {1, 2}
AllPids == 1..(2 + (MaxCalls + 1) * MaxServices)

(***************************************************************************)
(* Text helpers: Python's str.startswith, str.endswith, `in`, str(int),    *)
(* int(str) and str.split().                                               *)
(***************************************************************************)
StartsWith(s, pre) ==
    /\ Len(pre) <= Len(s)
    /\ SubSeq(s, 1, Len(pre)) = pre

EndsWith(s, suf) ==
    /\ Len(suf) <= Len(s)
    /\ SubSeq(s, Len(s) - Len(suf) + 1, Len(s)) = suf

Contains(s, sub) ==
    \E i \in 1..(Len(s) - Len(sub) + 1) : SubSeq(s, i, i + Len(sub) - 1) = sub

DigitChar(d) ==
    CASE d = 0 -> "0" [] d = 1 -> "1" [] d = 2 -> "2" [] d = 3 -> "3"
      [] d = 4 -> "4" [] d = 5 -> "5" [] d = 6 -> "6" [] d = 7 -> "7"
      [] d = 8 -> "8" [] d = 9 -> "9"

DigitVal(c) ==
    CASE c = "0" -> 0 [] c = "1" -> 1 [] c = "2" -> 2 [] c = "3" -> 3
      [] c = "4" -> 4 [] c = "5" -> 5 [] c = "6" -> 6 [] c = "7" -> 7
      [] c = "8" -> 8 [] c = "9" -> 9

RECURSIVE Digits(_)
Digits(n) ==
    IF n < 10 THEN <<DigitChar(n)>>
    ELSE Append(Digits(n \div 10), DigitChar(n % 10))

RECURSIVE ParseInt(_)
ParseInt(s) ==
    IF Len(s) = 1 THEN DigitVal(s[1])
    ELSE 10 * ParseInt(SubSeq(s, 1, Len(s) - 1)) + DigitVal(s[Len(s)])

RECURSIVE SplitFrom(_, _, _)
SplitFrom(s, i, cur) ==
    IF i > Len(s) THEN (IF cur = <<>> THEN <<>> ELSE <<cur>>)
    ELSE IF s[i] = " "
         THEN (IF cur = <<>> THEN <<>> ELSE <<cur>>) \o SplitFrom(s, i + 1, <<>>)
         ELSE SplitFrom(s, i + 1, Append(cur, s[i]))

Split(s) == SplitFrom(s, 1, <<>>)

(***************************************************************************)
(* _matches_pattern                                                        *)
(***************************************************************************)
\* _matches_pattern with its first two tests in the other order.
_matches_pattern_StarFirst(ip_address, pattern) ==
    IF StartsWith(pattern, <<"*">>)
    THEN EndsWith(ip_address, SubSeq(pattern, 2, Len(pattern)))
    ELSE IF EndsWith(pattern, <<".", "*">>)
    THEN StartsWith(ip_address, SubSeq(pattern, 1, Len(pattern) - 2))
    ELSE EndsWith(ip_address, pattern) \/ Contains(ip_address, pattern)

_matches_pattern(ip_address, pattern) ==
    IF EndsWith(pattern, <<".", "*">>)
    THEN StartsWith(ip_address, SubSeq(pattern, 1, Len(pattern) - 2))
    ELSE IF StartsWith(pattern, <<"*">>)
    THEN EndsWith(ip_address, SubSeq(pattern, 2, Len(pattern)))
    ELSE EndsWith(ip_address, pattern) \/ Contains(ip_address, pattern)

(***************************************************************************)
(* The operating system as the launcher sees it.                           *)
(*   procs[pid] = [st, onTerm, child, code]: st is "free" (no such         *)
(*   process), "alive" or "dead" (exited, pid not reused); onTerm is what  *)
(*   happens when the process is sent a termination request: it "exits"    *)
(*   promptly, it "lingers" (still there at the next lookup), the request  *)
(*   is "denied", or it fails with another "error"; child tells a process  *)
(*   started by start_services; code is the exit status of a dead process  *)
(*   (1 for a process that was terminated).                                *)
(*   socks is a sequence of [status, lport, raddr, pid].                   *)
(***************************************************************************)
IsAlive(w, pid) == pid \in DOMAIN w.procs /\ w.procs[pid].st = "alive"

Supervised(w, pid) == \E n \in DOMAIN w.processes : w.processes[n] = pid

\* What `netstat -ano` / psutil.net_connections list now: the sockets of the
\* processes that exist (a socket goes when its owner has gone).
RECURSIVE VisibleFrom(_, _)
VisibleFrom(w, i) ==
    IF i > Len(w.socks) THEN <<>>
    ELSE (IF w.socks[i].pid = NoPid \/ IsAlive(w, w.socks[i].pid)
          THEN <<w.socks[i]>> ELSE <<>>) \o VisibleFrom(w, i + 1)

Visible(w) == VisibleFrom(w, 1)

\* One line of `netstat -ano` output for a socket.
NetstatLine(s) ==
    <<" ", " ", "TCP", " ", "0.0.0.0", ":">> \o Digits(s.lport) \o <<" ">>
    \o (IF s.status = "LISTEN"
        THEN <<"0.0.0.0", ":", "0", " ", "LISTENING">>
        ELSE <<"host", ":", "4", "4", "3", " ", s.status>>)
    \o <<" ">> \o Digits(s.pid)

\* psutil.Process(pid) followed by process.terminate(): the outcome.
TerminateOutcome(w, pid) ==
    IF ~IsAlive(w, pid) THEN "NoSuchProcess"
    ELSE IF w.procs[pid].onTerm = "denied" THEN "AccessDenied"
    ELSE IF w.procs[pid].onTerm = "error" THEN "Error"
    ELSE "ok"

NoSock == [status |-> "none", lport |-> 0, raddr |-> <<>>, pid |-> NoPid]

\* The world after a terminate of pid was attempted by `by`, on account of
\* target port `port` (kill_processes_on_ports) or of connection `c`
\* (manage_cloud_handshake).  The attempt is logged with its outcome; a
\* process that got the request exits at once or lingers.
Terminate(w, pid, by, port, c) ==
    LET ok == TerminateOutcome(w, pid) = "ok" IN
    [w EXCEPT
       !.termLog = Append(@, [by |-> by, sig |-> "terminate", pid |-> pid,
                              port |-> port, conn |-> c, ok |-> ok,
                              supervised |-> Supervised(w, pid)]),
       !.procs = IF ok /\ w.procs[pid].onTerm = "exits"
                 THEN [@ EXCEPT ![pid].st = "dead", ![pid].code = 1] ELSE @]

(***************************************************************************)
(* kill_processes_on_ports                                                 *)
(***************************************************************************)
\* The test of line 115 on one netstat line.
LineMatchesPort(line, port) ==
    /\ Contains(line, <<":">> \o Digits(port))
    /\ Contains(line, <<"LISTENING">>)

\* The inner loop over the lines of one netstat snapshot, from line i on;
\* acc = [w, killed_pids].
RECURSIVE KillLines(_, _, _, _)
KillLines(acc, lines, i, port) ==
    IF i > Len(lines) THEN acc
    ELSE LET line == lines[i]
             parts == Split(line)
         IN IF LineMatchesPort(line, port) /\ Len(parts) >= 5
            THEN LET pid == ParseInt(parts[Len(parts)])
                     w2 == Terminate(acc.w, pid, "kill_processes_on_ports", port, NoSock)
                 IN KillLines([w |-> w2,
                               killed_pids |-> IF TerminateOutcome(acc.w, pid) = "ok"
                                               THEN Append(acc.killed_pids, pid)
                                               ELSE acc.killed_pids],
                              lines, i + 1, port)
            ELSE KillLines(acc, lines, i + 1, port)

\* The outer loop over self.target_ports, from index k on;
\* acc = [w, killed_processes].
RECURSIVE KillPorts(_, _, _)
KillPorts(acc, ports, k) ==
    IF k > Len(ports) THEN acc
    ELSE LET snapshot == Visible(acc.w)
             lines == [i \in 1..Len(snapshot) |-> NetstatLine(snapshot[i])]
             r == KillLines([w |-> acc.w, killed_pids |-> <<>>], lines, 1, ports[k])
         IN KillPorts([w |-> r.w,
                       killed_processes |->
                           IF r.killed_pids # <<>>
                           THEN (ports[k] :> r.killed_pids) @@ acc.killed_processes
                           ELSE acc.killed_processes],
                      ports, k + 1)

EmptyMap == [x \in {} |-> <<>>]

kill_processes_on_ports(w, target_ports) ==
    LET r == KillPorts([w |-> w, killed_processes |-> EmptyMap], target_ports, 1)
    IN [w |-> r.w, ret |-> r.killed_processes]

(***************************************************************************)
(* manage_cloud_handshake                                                  *)
(***************************************************************************)
\* `conn.raddr.ip if conn.raddr else None`, then `if remote_addr:`.
HasRemote(c) == c.raddr # <<>>

\* GuardExamines without its test of the connection status.
GuardExamines_AnyStatus(c) == HasRemote(c)

\* The test of lines 284-288 on one connection: is it examined at all?
GuardExamines(c) == c.status = "ESTABLISHED" /\ HasRemote(c)

\* psutil.Process(conn.pid).terminate() for connection c.  A pid of None
\* makes psutil.Process the calling process: the launcher itself.
GuardTerminate(acc, c) ==
    IF c.pid = NoPid
    THEN [w |-> [acc.w EXCEPT
                   !.termLog = Append(@, [by |-> "manage_cloud_handshake",
                                          sig |-> "terminate", pid |-> NoPid,
                                          port |-> 0, conn |-> c, ok |-> TRUE,
                                          supervised |-> FALSE]),
                   !.alive = FALSE],
          count |-> acc.count]
    ELSE [w |-> Terminate(acc.w, c.pid, "manage_cloud_handshake", 0, c),
          count |-> IF TerminateOutcome(acc.w, c.pid) = "ok"
                    THEN acc.count + 1 ELSE acc.count]

\* What the pattern loop does after pattern j matched and the owner was
\* handled: the code has no break, it goes on with the next pattern.
AfterMatch(patterns, j) == j + 1

\* The terminate of c's owner raises something the inner except (line 298)
\* does not name: the except of line 300 ends the work on this connection.
GuardEscapes(w, c) == c.pid # NoPid /\ TerminateOutcome(w, c.pid) = "Error"

\* The loop over blocked_domains for one connection, from pattern j on;
\* acc = [w, count].
RECURSIVE GuardPatterns(_, _, _, _)
GuardPatterns(acc, c, patterns, j) ==
    IF j > Len(patterns) \/ ~acc.w.alive THEN acc
    ELSE IF _matches_pattern(c.raddr, patterns[j])
    THEN IF GuardEscapes(acc.w, c) THEN GuardTerminate(acc, c)
         ELSE GuardPatterns(GuardTerminate(acc, c), c, patterns,
                            AfterMatch(patterns, j))
    ELSE GuardPatterns(acc, c, patterns, j + 1)

\* The loop over the connection snapshot, from connection i on.
RECURSIVE GuardConns(_, _, _, _)
GuardConns(acc, conns, i, patterns) ==
    IF i > Len(conns) \/ ~acc.w.alive THEN acc
    ELSE IF GuardExamines(conns[i])
    THEN GuardConns(GuardPatterns(acc, conns[i], patterns, 1), conns, i + 1, patterns)
    ELSE GuardConns(acc, conns, i + 1, patterns)

\* tableAvailable = FALSE: psutil.net_connections itself raises.
manage_cloud_handshake(w, blocked_domains, tableAvailable) ==
    IF ~tableAvailable
    THEN [w |-> w, ret |-> [status |-> "ERROR", error |-> "str(e)",
                            redirected_connections |-> 0]]
    ELSE LET r == GuardConns([w |-> w, count |-> 0], Visible(w), 1, blocked_domains)
         IN [w |-> r.w,
             ret |-> [status |-> "SUCCESS", details |-> r.count,
                      redirected_connections |-> r.count,
                      blocked_domains_checked |-> blocked_domains]]

(***************************************************************************)
(* start_services                                                          *)
(***************************************************************************)
\* `not script_path or not os.path.exists(script_path)`: a descriptor's script
\* is "absent" (no path given), "missing" (no such file) or "ok".
ScriptNotFound(service_config) == service_config.script \in {"absent", "missing"}

FreePids(w) == {p \in AllPids : w.procs[p].st = "free"}

FreshPid(w) == CHOOSE p \in FreePids(w) : \A q \in FreePids(w) : p <= q

PortTaken(w, port) ==
    \E i \in 1..Len(w.socks) :
        /\ w.socks[i].status = "LISTEN" /\ w.socks[i].lport = port
        /\ IsAlive(w, w.socks[i].pid)

\* subprocess.Popen succeeded with a new process `pid` whose fate is `fate`:
\* "early" (it has exited when probed), "stays" or "stubborn" (it stays, and
\* a stubborn one lingers after a termination request).  A service that
\* stays listens on its port when the port is free.
Spawn(w, name, service_config, pid, fate) ==
    [w EXCEPT
       !.procs[pid] = [st |-> IF fate = "early" THEN "dead" ELSE "alive",
                       onTerm |-> IF fate = "stubborn" THEN "lingers" ELSE "exits",
                       child |-> TRUE,
                       code |-> IF fate = "early" THEN 1 ELSE 0],
       !.socks = IF fate # "early" /\ ~PortTaken(w, service_config.port)
                 THEN Append(@, [status |-> "LISTEN", lport |-> service_config.port,
                                 raddr |-> <<>>, pid |-> pid])
                 ELSE @,
       !.processes = (name :> pid) @@ @]

\* AfterScriptNotFound leaving the loop (a break in place of the continue).
AfterScriptNotFound_Break(k) == k + MaxServices + 1

\* What the loop does after a descriptor whose script was not found: the
\* `continue` of line 184 goes on with the next descriptor.
AfterScriptNotFound(k) == k + 1

\* The loop over the configured services, from descriptor k on;
\* acc = [w, service_status]; fates[k] is what becomes of descriptor k's
\* Popen ("error": Popen itself raises).
RECURSIVE StartLoop(_, _, _, _)
StartLoop(acc, services, k, fates) ==
    IF k > Len(services) THEN acc
    ELSE LET sc == services[k] IN
         IF ScriptNotFound(sc)
         THEN StartLoop([w |-> acc.w,
                         service_status |-> (sc.name :> [status |-> "FAILED", pid |-> NoPid])
                                            @@ acc.service_status],
                        services, AfterScriptNotFound(k), fates)
         ELSE IF fates[k] = "error" \/ FreePids(acc.w) = {}
         THEN StartLoop([w |-> acc.w,
                         service_status |-> (sc.name :> [status |-> "FAILED", pid |-> NoPid])
                                            @@ acc.service_status],
                        services, k + 1, fates)
         ELSE LET pid == FreshPid(acc.w)
                  w2 == Spawn(acc.w, sc.name, sc, pid, fates[k])
              IN StartLoop([w |-> w2,
                            service_status |->
                                (sc.name :> [status |-> IF IsAlive(w2, pid)
                                                        THEN "RUNNING" ELSE "FAILED",
                                             pid |-> pid])
                                @@ acc.service_status],
                           services, k + 1, fates)

EmptyStatus == [x \in {} |-> [status |-> "FAILED", pid |-> NoPid]]

start_services(w, services, fates) ==
    LET r == StartLoop([w |-> w, service_status |-> EmptyStatus], services, 1, fates)
    IN [w |-> r.w, ret |-> r.service_status]

(***************************************************************************)
(* shutdown                                                                *)
(***************************************************************************)
\* A shutdown that takes every handle for a running process.
StillRunning_Always(w, pid) == TRUE

\* `process.poll() is None` (line 668).
StillRunning(w, pid) == IsAlive(w, pid)

\* A wait that always runs into its timeout.
WaitTimesOut_Always(w, pid) == TRUE

\* process.wait(timeout=10) raises TimeoutExpired (lines 673-676): the
\* process has not exited on the terminate.
WaitTimesOut(w, pid) == w.procs[pid].onTerm # "exits"

\* A shutdown loop that gives up at the first step that raised.
AfterShutdownStep_FailFast(acc, k) ==
    IF acc.success THEN k + 1 ELSE k + MaxServices + 1

\* The except of lines 679-681 is inside the loop: the next handle follows.
AfterShutdownStep(acc, k) == k + 1

\* One handle of shutdown's loop (lines 667-681).  A process that is still
\* running gets terminate(); one that has not exited when wait(timeout=10)
\* expires gets kill().  raises: the step throws (after the terminate).
ShutdownOne(acc, name, raises) ==
    LET pid == acc.w.processes[name]
        entry(sig) == [by |-> "shutdown", sig |-> sig, pid |-> pid, port |-> 0,
                       conn |-> NoSock, ok |-> TRUE, supervised |-> TRUE]
    IN IF ~StillRunning(acc.w, pid) THEN acc
       ELSE IF raises
       THEN [w |-> [acc.w EXCEPT !.termLog = Append(@, entry("terminate"))],
             success |-> FALSE]
       ELSE IF ~WaitTimesOut(acc.w, pid)
       THEN [w |-> [acc.w EXCEPT !.termLog = Append(@, entry("terminate")),
                                 !.procs[pid].st = "dead",
                                 !.procs[pid].code = 1],
             success |-> acc.success]
       ELSE [w |-> [acc.w EXCEPT !.termLog = Append(Append(@, entry("terminate")),
                                                    entry("kill")),
                                 !.procs[pid].st = "dead",
                                 !.procs[pid].code = 1],
             success |-> acc.success]

\* The loop over self.processes, in the order the names were inserted;
\* acc = [w, success].
RECURSIVE ShutdownLoop(_, _, _, _)
ShutdownLoop(acc, names, k, raising) ==
    IF k > Len(names) THEN acc
    ELSE IF names[k] \in DOMAIN acc.w.processes
    THEN LET step == ShutdownOne(acc, names[k], names[k] \in raising)
         IN  ShutdownLoop(step, names, AfterShutdownStep(step, k), raising)
    ELSE ShutdownLoop(acc, names, k + 1, raising)

NoHandles == [x \in {} |-> NoPid]

shutdown(w, names, raising) ==
    LET r == ShutdownLoop([w |-> w, success |-> TRUE], names, 1, raising)
    IN [w |-> [r.w EXCEPT !.processes = NoHandles], ret |-> r.success]

(***************************************************************************)
(* check_service_health                                                    *)
(***************************************************************************)
\* The dictionary check_service_health returns; pid and exit_code are NoPid
\* and 0 where the dictionary has no such key.  probeFails: process.poll()
\* raises.
check_service_health(w, service_name, probeFails) ==
    [w |-> w,
     ret |-> IF service_name \notin DOMAIN w.processes
             THEN [status |-> "NOT_FOUND", pid |-> NoPid, exit_code |-> 0]
             ELSE LET pid == w.processes[service_name]
                  IN  IF probeFails
                      THEN [status |-> "ERROR", pid |-> NoPid, exit_code |-> 0]
                      ELSE IF IsAlive(w, pid)
                      THEN [status |-> "HEALTHY", pid |-> pid, exit_code |-> 0]
                      ELSE [status |-> "STOPPED", pid |-> pid,
                            exit_code |-> w.procs[pid].code]]

(***************************************************************************)
(* State shared by the specifications below.                               *)
(***************************************************************************)
SeqsUpTo(S, n) == UNION {[1..k -> S] : k \in 0..n}

\* The launcher's view of the world, as one value.
W == [procs |-> procs, socks |-> socks, termLog |-> termLog,
      processes |-> processes, alive |-> TRUE]

\* The process table before the launcher has started anything.
ProcTables ==
    {[p \in AllPids |->
        IF p \in ExternalPids
        THEN [st |-> "alive", onTerm |-> ot[p], child |-> FALSE, code |-> 0]
        ELSE [st |-> "free", onTerm |-> "exits", child |-> FALSE, code |-> 0]] :
     ot \in [ExternalPids -> {"exits", "lingers", "denied", "error"}]}

\* The clients of the proxy; each opens one connection and sends one request.
Clients == {"c1", "c2"}

\* The body of a request: whether a Content-Length header came with it,
\* whether its bytes are "invalid" JSON, a JSON "array" or a JSON "object",
\* and for an object its model ("absent" or a name), its messages ("absent",
\* "empty" or "some") and its stream flag ("absent", "false" or "true").
Body(length, json, model, messages, stream) ==
    [length |-> length, json |-> json, model |-> model, messages |-> messages,
     stream |-> stream]

NoBody == Body(FALSE, "invalid", "absent", "absent", "absent")

\* A connection nobody has used yet: no request, the peer has it open, no
\* chunk pulled from the backend for it, nothing written to it, no call of
\* the backend made for it.
FreshConn == [req |-> "none", body |-> NoBody, phase |-> "new", open |-> TRUE,
              cursor |-> 0, attempts |-> <<>>, calls |-> <<>>]

\* LocalAIPlatform.__init__: the status dict; a timestamp is the number of
\* the call that wrote it, 0 for the constructor.
FreshStatus ==
    [platform_initialized |-> TRUE, timestamp |-> 0, ollama_host |-> "ollama_host"]

\* LiberationAIProxyService.__init__: no server, not running.  servers is
\* the state of every HTTPServer the service has made so far.
NoServer == 0
FreshService == [running |-> FALSE, server |-> NoServer, servers |-> <<>>]

\* The two objects right after their construction.
ObjectsFresh == platform_status = FreshStatus /\ service = FreshService

ProxyQuiet ==
    /\ chunks = <<>>
    /\ backlog = <<>>
    /\ serving = "idle"
    /\ conn = [c \in Clients |-> FreshConn]

\* A launcher call returned (or the launcher terminated itself during it).
Commit(r, op, input, next) ==
    /\ procs' = r.w.procs
    /\ socks' = r.w.socks
    /\ termLog' = r.w.termLog
    /\ processes' = r.w.processes
    /\ ret' = IF r.w.alive THEN [op |-> op, val |-> r.ret, pre |-> W, input |-> input]
                               ELSE ret
    /\ hist' = IF r.w.alive THEN Append(hist, op) ELSE hist
    /\ pc' = IF r.w.alive THEN next ELSE "killed"
    /\ UNCHANGED config

NoRet == [op |-> "none", val |-> 0, pre |-> 0, input |-> 0]

\* Sample texts: two remote addresses and three block patterns,
\* "a.b" and "b"; "*.b", "a.*" and "b".
AddrAB == <<"a", ".", "b">>
AddrB == <<"b">>
PatStarDotB == <<"*", ".", "b">>
PatADotStar == <<"a", ".", "*">>
PatB == <<"b">>
PatternSamples == {PatStarDotB, PatADotStar, PatB}
\* The lists of block patterns of length n at most, no pattern listed twice.
PatternLists(n) ==
    {b \in SeqsUpTo(PatternSamples, n) :
        \A i, j \in 1..Len(b) : b[i] = b[j] => i = j}

DefaultTargetPorts == <<8080, 11434>>
PortSamples == {80, 8080, 11434}
PortLists == {<<>>, <<80>>, <<8080>>, DefaultTargetPorts, <<80, 8080>>}

BaseConfig == [target_ports |-> DefaultTargetPorts, services |-> <<>>,
               blocked |-> <<>>, cleanup_on_startup |-> TRUE]

(***************************************************************************)
(* SpecReap: kill_processes_on_ports called on any listening-socket table  *)
(* and any list of target ports, up to MaxCalls times in succession.       *)
(***************************************************************************)
ReapSocks ==
    {[status |-> st, lport |-> p,
      raddr |-> IF st = "LISTEN" THEN <<>> ELSE AddrAB, pid |-> q] :
     st \in {"LISTEN", "ESTABLISHED"}, p \in PortSamples, q \in ExternalPids}

InitReap ==
    /\ config \in {[BaseConfig EXCEPT !.target_ports = tp] : tp \in PortLists}
    /\ procs \in ProcTables
    /\ socks \in SeqsUpTo(ReapSocks, MaxSocks)
    /\ processes = NoHandles
    /\ termLog = <<>>
    /\ pc = "api"
    /\ ret = NoRet
    /\ hist = <<>>
    /\ ProxyQuiet
    /\ ObjectsFresh

ApiKill ==
    /\ pc = "api"
    /\ Len(hist) < MaxCalls
    /\ Commit(kill_processes_on_ports(W, config.target_ports),
              "kill_processes_on_ports", 0, "api")
    /\ UNCHANGED <<proxyVars, objectVars>>

NextReap == ApiKill

SpecReap == InitReap /\ [][NextReap]_vars

(***************************************************************************)
(* SpecGuard: manage_cloud_handshake called once on any connection table   *)
(* and any list of block patterns.                                         *)
(***************************************************************************)
GuardSocks ==
    {[status |-> "ESTABLISHED", lport |-> 8080, raddr |-> a, pid |-> q] :
        a \in {AddrAB, AddrB}, q \in ExternalPids \cup {NoPid}}
    \cup {[status |-> "ESTABLISHED", lport |-> 8080, raddr |-> <<>>, pid |-> 1],
          [status |-> "TIME_WAIT", lport |-> 8080, raddr |-> AddrAB, pid |-> 2],
          [status |-> "LISTEN", lport |-> 8080, raddr |-> <<>>, pid |-> 1]}

InitGuard ==
    /\ config \in {[BaseConfig EXCEPT !.blocked = b] :
                     b \in PatternLists(MaxPatterns)}
    /\ procs \in ProcTables
    /\ socks \in SeqsUpTo(GuardSocks, MaxSocks)
    /\ processes = NoHandles
    /\ termLog = <<>>
    /\ pc = "api"
    /\ ret = NoRet
    /\ hist = <<>>
    /\ ProxyQuiet
    /\ ObjectsFresh

ApiGuard ==
    /\ pc = "api"
    /\ hist = <<>>
    /\ \E tableAvailable \in BOOLEAN :
          Commit(manage_cloud_handshake(W, config.blocked, tableAvailable),
                 "manage_cloud_handshake", tableAvailable, "api")
    /\ UNCHANGED <<proxyVars, objectVars>>

NextGuard == ApiGuard

SpecGuard == InitGuard /\ [][NextGuard]_vars

(***************************************************************************)
(* Spec: UniversalLauncher.run(), one action per step, optionally          *)
(* interrupted or followed by shutdown() (main, lines 764-776).            *)
(***************************************************************************)
ServiceNames == <<"proxy_service", "service_b", "service_c", "service_d">>
ServicePorts == <<8080, 11434, 8081, 8082>>

\* The service lists of Spec: descriptor i has the i-th name and port, and
\* its script exists or is missing.
RunServiceLists(n) ==
    UNION {{[i \in 1..k |-> [name |-> ServiceNames[i], script |-> sc[i],
                             port |-> ServicePorts[i]]] :
               sc \in [1..k -> {"missing", "ok"}]} : k \in 0..n}

\* What exists before run(): nothing, a foreign listener on 8080, or a
\* connection to a cloud host owned by a foreign process or by an unknown one.
RunSockTables ==
    {<<>>,
     <<[status |-> "LISTEN", lport |-> 8080, raddr |-> <<>>, pid |-> 1]>>,
     <<[status |-> "ESTABLISHED", lport |-> 8081, raddr |-> AddrAB, pid |-> 1]>>,
     <<[status |-> "ESTABLISHED", lport |-> 8081, raddr |-> AddrAB, pid |-> NoPid]>>}

Fates == {"error", "early", "stays", "stubborn"}
\* In Spec a Popen that raises is left out: it ends as a missing script does.
RunFates == Fates \ {"error"}

Init ==
    /\ config \in {[target_ports |-> tp, services |-> sv, blocked |-> b,
                     cleanup_on_startup |-> cl] :
                        tp \in {DefaultTargetPorts, <<80>>},
                        sv \in RunServiceLists(MaxServices),
                        b \in {<<>>, <<PatStarDotB>>},
                        cl \in BOOLEAN}
    /\ socks \in RunSockTables
    /\ procs \in {t \in ProcTables :
                    /\ t[2].onTerm = "exits"
                    /\ (\A i \in 1..Len(socks) : socks[i].pid # 1) => t[1].onTerm = "exits"}
    /\ processes = NoHandles
    /\ termLog = <<>>
    /\ pc = "r1"
    /\ ret = NoRet
    /\ hist = <<>>
    /\ ProxyQuiet
    /\ ObjectsFresh

\* RunNext with steps 2 and 3 exchanged: services are started before the
\* environment is set up.
RunNext_StartBeforeEnv(step) ==
    CASE step = "r1" -> "r3"
      [] step = "r3" -> "r2"
      [] step = "r2" -> "r4"
      [] step = "r4" -> "r5"
      [] step = "r5" -> "r6"
      [] step = "r6" -> "t1"
      [] step = "t1" -> "t2"
      [] step = "t2" -> "t3"
      [] step = "t3" -> "t4"
      [] step = "t4" -> "t5"
      [] step = "t5" -> "t6"
      [] step = "t6" -> "done"

\* The order of the statements of run() (r1..r6: steps 1 to 6) and of
\* run_comprehensive_check() (t1..t6: step 7, tests 1 to 6).
RunNext(step) ==
    CASE step = "r1" -> "r2"
      [] step = "r2" -> "r3"
      [] step = "r3" -> "r4"
      [] step = "r4" -> "r5"
      [] step = "r5" -> "r6"
      [] step = "r6" -> "t1"
      [] step = "t1" -> "t2"
      [] step = "t2" -> "t3"
      [] step = "t3" -> "t4"
      [] step = "t4" -> "t5"
      [] step = "t5" -> "t6"
      [] step = "t6" -> "done"

RunSteps == {"r1", "r2", "r3", "r4", "r5", "r6", "t1", "t2", "t3", "t4", "t5", "t6"}

\* A step that changes nothing the model keeps but the record of the call.
Pass(op) ==
    /\ hist' = Append(hist, op)
    /\ pc' = RunNext(pc)
    /\ UNCHANGED <<config, procs, socks, processes, termLog, ret>>

\* Step 1: kill_processes_on_ports, when cleanup_on_startup is set.
RunKill ==
    /\ pc = "r1"
    /\ IF config.cleanup_on_startup
       THEN Commit(kill_processes_on_ports(W, config.target_ports),
                   "kill_processes_on_ports", 0, RunNext(pc))
       ELSE /\ pc' = RunNext(pc)
            /\ UNCHANGED <<config, procs, socks, processes, termLog, ret, hist>>
    /\ UNCHANGED <<proxyVars, objectVars>>

\* Step 2: setup_environment_variables.
RunEnv ==
    /\ pc = "r2"
    /\ Pass("setup_environment_variables")
    /\ UNCHANGED <<proxyVars, objectVars>>

\* Step 3: start_services.
RunStart ==
    /\ pc = "r3"
    /\ \E fates \in [1..Len(config.services) -> RunFates] :
          Commit(start_services(W, config.services, fates), "start_services",
                 fates, RunNext(pc))
    /\ UNCHANGED <<proxyVars, objectVars>>

\* Step 4: monitor_waz_doc.
RunWazDoc ==
    /\ pc = "r4"
    /\ Pass("monitor_waz_doc")
    /\ UNCHANGED <<proxyVars, objectVars>>

\* Step 5: manage_cloud_handshake.
RunGuard ==
    /\ pc = "r5"
    /\ \E tableAvailable \in BOOLEAN :
          Commit(manage_cloud_handshake(W, config.blocked, tableAvailable),
                 "manage_cloud_handshake", tableAvailable, RunNext(pc))
    /\ UNCHANGED <<proxyVars, objectVars>>

\* Step 6: generate_status_report and save_report.
RunReport ==
    /\ pc = "r6"
    /\ Pass("generate_status_report")
    /\ UNCHANGED <<proxyVars, objectVars>>

\* Step 7, test 1: check_service_health of every handle.
CheckHealth ==
    /\ pc = "t1"
    /\ Pass("check_service_health")
    /\ UNCHANGED <<proxyVars, objectVars>>

\* Step 7, test 2: kill_processes_on_ports again.
CheckKill ==
    /\ pc = "t2"
    /\ Commit(kill_processes_on_ports(W, config.target_ports),
              "kill_processes_on_ports", 0, RunNext(pc))
    /\ UNCHANGED <<proxyVars, objectVars>>

\* Step 7, test 3: setup_environment_variables again.
CheckEnv ==
    /\ pc = "t3"
    /\ Pass("setup_environment_variables")
    /\ UNCHANGED <<proxyVars, objectVars>>

\* Step 7, test 4: start_services again.
CheckStart ==
    /\ pc = "t4"
    /\ \E fates \in [1..Len(config.services) -> RunFates] :
          Commit(start_services(W, config.services, fates), "start_services",
                 fates, RunNext(pc))
    /\ UNCHANGED <<proxyVars, objectVars>>

\* Step 7, test 5: manage_cloud_handshake again.
CheckGuard ==
    /\ pc = "t5"
    /\ \E tableAvailable \in BOOLEAN :
          Commit(manage_cloud_handshake(W, config.blocked, tableAvailable),
                 "manage_cloud_handshake", tableAvailable, RunNext(pc))
    /\ UNCHANGED <<proxyVars, objectVars>>

\* Step 7, test 6: monitor_waz_doc again; run() returns.
CheckWazDoc ==
    /\ pc = "t6"
    /\ Pass("monitor_waz_doc")
    /\ UNCHANGED <<proxyVars, objectVars>>

\* shutdown() after run() has returned.
Shutdown ==
    /\ pc = "done"
    /\ \E raising \in SUBSET {n \in DOMAIN processes : IsAlive(W, processes[n])} :
          Commit(shutdown(W, [i \in 1..Len(config.services) |-> config.services[i].name],
                          raising),
                 "shutdown", raising, "stopped")
    /\ UNCHANGED <<proxyVars, objectVars>>

\* Environment: a running service opens a connection to a cloud host.  Only
\* the connection guard reads connections, so the model lets it happen just
\* before a guard step, and to one service at most.
ChildConnects ==
    /\ pc \in {"r5", "t5"}
    /\ \E p \in AllPids :
          /\ procs[p].child /\ procs[p].st = "alive"
          /\ \A i \in 1..Len(socks) :
                (socks[i].pid \in AllPids /\ procs[socks[i].pid].child)
                    => socks[i].status = "LISTEN"
          /\ socks' = Append(socks, [status |-> "ESTABLISHED", lport |-> 8081,
                                     raddr |-> AddrAB, pid |-> p])
    /\ UNCHANGED <<config, procs, processes, termLog, pc, ret, hist>>
    /\ UNCHANGED <<proxyVars, objectVars>>

Next ==
    \/ RunKill \/ RunEnv \/ RunStart \/ RunWazDoc \/ RunGuard \/ RunReport
    \/ CheckHealth \/ CheckKill \/ CheckEnv \/ CheckStart \/ CheckGuard \/ CheckWazDoc
    \/ Shutdown \/ ChildConnects

Spec == Init /\ [][Next]_vars

(***************************************************************************)
(* Claims about run() (Spec).                                              *)
(***************************************************************************)
\* C1: a process held in self.processes receives a termination request only
\* from shutdown(): never from kill_processes_on_ports nor from
\* manage_cloud_handshake, wherever run() invokes them.
C1_OnlyShutdownTerminatesHandles ==
    \A i \in 1..Len(termLog) :
        (termLog[i].supervised /\ termLog[i].ok) => termLog[i].by = "shutdown"

\* Call op has returned before the i-th completed call began.
Before(op, i) == \E j \in 1..(i - 1) : hist[j] = op

\* C2: the phases of run() happen one after another: services are started
\* only after port reaping (when cleanup_on_startup is set) and environment
\* setup have returned, the connection guard runs only after start_services
\* has gone through the configured services, and the status report is
\* generated only after the connection guard has returned.
C2_PhasesInOrder ==
    /\ \A i \in 1..Len(hist) :
          /\ hist[i] = "setup_environment_variables"
                => (config.cleanup_on_startup => Before("kill_processes_on_ports", i))
          /\ hist[i] = "start_services"
                => /\ Before("setup_environment_variables", i)
                   /\ config.cleanup_on_startup => Before("kill_processes_on_ports", i)
          /\ hist[i] = "manage_cloud_handshake" => Before("start_services", i)
          /\ hist[i] = "generate_status_report" => Before("manage_cloud_handshake", i)
    /\ (\E p \in AllPids : procs[p].child /\ procs[p].st # "free")
          => \E i \in 1..Len(hist) : hist[i] = "start_services"

\* C2 witness: run() has returned with cleanup_on_startup set, a service
\* was spawned and the status report was generated.
C2_Witness ==
    /\ pc = "done"
    /\ config.cleanup_on_startup
    /\ \E p \in AllPids : procs[p].child /\ procs[p].st = "alive"
    /\ \E i \in 1..Len(hist) : hist[i] = "generate_status_report"

(***************************************************************************)
(* SpecStart: start_services called on any ordered set of descriptors, up  *)
(* to MaxCalls times in succession.                                        *)
(***************************************************************************)
ServiceLists(n) ==
    UNION {{[i \in 1..k |-> [name |-> ServiceNames[i], script |-> sc[i], port |-> pt[i]]] :
               sc \in [1..k -> {"absent", "missing", "ok"}],
               pt \in [1..k -> {8080, 11434}]} : k \in 0..n}

InitStart ==
    /\ config \in {[BaseConfig EXCEPT !.services = sv] : sv \in ServiceLists(MaxServices)}
    /\ procs \in {t \in ProcTables : \A p \in ExternalPids : t[p].onTerm = "exits"}
    /\ socks = <<>>
    /\ processes = NoHandles
    /\ termLog = <<>>
    /\ pc = "api"
    /\ ret = NoRet
    /\ hist = <<>>
    /\ ProxyQuiet
    /\ ObjectsFresh

ApiStart ==
    /\ pc = "api"
    /\ Len(hist) < MaxCalls
    /\ \E fates \in [1..Len(config.services) -> Fates] :
          Commit(start_services(W, config.services, fates), "start_services", fates, "api")
    /\ UNCHANGED <<proxyVars, objectVars>>

NextStart == ApiStart

SpecStart == InitStart /\ [][NextStart]_vars

(***************************************************************************)
(* Claims about start_services (SpecStart).                                *)
(***************************************************************************)
Spawned(w) == {p \in AllPids : w.procs[p].st # "free"}

\* C10: a descriptor whose script is absent or missing gets FAILED and no
\* process; every other descriptor whose Popen succeeds gets a process of its
\* own, and is RUNNING when that process is alive at the probe; every
\* descriptor is in the returned mapping.
C10_MissingScriptDoesNotBlock ==
    ret.op = "start_services" =>
        LET sv == config.services
            fates == ret.input
            launched == {k \in 1..Len(sv) : ~ScriptNotFound(sv[k]) /\ fates[k] # "error"}
        IN /\ DOMAIN ret.val = {sv[k].name : k \in 1..Len(sv)}
           /\ \A k \in 1..Len(sv) : ScriptNotFound(sv[k]) =>
                  ret.val[sv[k].name] = [status |-> "FAILED", pid |-> NoPid]
           /\ Cardinality(Spawned(W) \ Spawned(ret.pre)) = Cardinality(launched)
           /\ \A k \in launched :
                  /\ ret.val[sv[k].name].pid \in Spawned(W) \ Spawned(ret.pre)
                  /\ processes[sv[k].name] = ret.val[sv[k].name].pid
                  /\ ret.val[sv[k].name].status
                        = IF fates[k] \in {"stays", "stubborn"} THEN "RUNNING" ELSE "FAILED"

\* C10 witness: a descriptor with no script comes first, and a later
\* descriptor was started and reported RUNNING.
C10_Witness ==
    /\ ret.op = "start_services"
    /\ \E j, k \in 1..Len(config.services) :
          /\ j < k
          /\ ScriptNotFound(config.services[j])
          /\ ret.val[config.services[k].name].status = "RUNNING"

(***************************************************************************)
(* SpecHandles: check_service_health and shutdown called, up to MaxCalls   *)
(* times in succession, on any handle table start_services can leave: per  *)
(* configured service no handle, or a handle whose process is running      *)
(* (exiting on terminate, or only on kill) or has exited with status 0 or  *)
(* with status 1.                                                          *)
(***************************************************************************)
HandleStates == {"nohandle", "alive", "stubborn", "exit0", "exit1"}

\* The process behind a handle in state hs.
ProcOfHandle(hs) ==
    [st |-> IF hs \in {"alive", "stubborn"} THEN "alive" ELSE "dead",
     onTerm |-> IF hs = "stubborn" THEN "lingers" ELSE "exits",
     child |-> TRUE,
     code |-> IF hs = "exit1" THEN 1 ELSE 0]

\* The names of the configured services, in the order of the configuration.
ConfiguredNames == [i \in 1..Len(config.services) |-> config.services[i].name]

InitHandles ==
    /\ \E k \in 0..MaxServices : \E hs \in [1..k -> HandleStates] :
          /\ config = [BaseConfig EXCEPT !.services =
                          [i \in 1..k |-> [name |-> ServiceNames[i], script |-> "ok",
                                           port |-> ServicePorts[i]]]]
          /\ procs = [p \in AllPids |->
                        IF p \in ExternalPids
                        THEN [st |-> "alive", onTerm |-> "exits", child |-> FALSE,
                              code |-> 0]
                        ELSE IF p - 2 \in 1..k /\ hs[p - 2] # "nohandle"
                        THEN ProcOfHandle(hs[p - 2])
                        ELSE [st |-> "free", onTerm |-> "exits", child |-> FALSE,
                              code |-> 0]]
          /\ processes = [n \in {ServiceNames[i] : i \in {j \in 1..k : hs[j] # "nohandle"}}
                            |-> 2 + (CHOOSE i \in 1..k : ServiceNames[i] = n)]
    /\ socks = <<>>
    /\ termLog = <<>>
    /\ pc = "api"
    /\ ret = NoRet
    /\ hist = <<>>
    /\ ProxyQuiet
    /\ ObjectsFresh

ApiHealth ==
    /\ pc = "api"
    /\ Len(hist) < MaxCalls
    /\ \E i \in 1..MaxServices : \E probeFails \in BOOLEAN :
          Commit(check_service_health(W, ServiceNames[i], probeFails),
                 "check_service_health",
                 [service_name |-> ServiceNames[i], probeFails |-> probeFails], "api")
    /\ UNCHANGED <<proxyVars, objectVars>>

ApiShutdown ==
    /\ pc = "api"
    /\ Len(hist) < MaxCalls
    /\ \E raising \in SUBSET {n \in DOMAIN processes : IsAlive(W, processes[n])} :
          Commit(shutdown(W, ConfiguredNames, raising), "shutdown", raising, "api")
    /\ UNCHANGED <<proxyVars, objectVars>>

NextHandles == ApiHealth \/ ApiShutdown

SpecHandles == InitHandles /\ [][NextHandles]_vars

(***************************************************************************)
(* Claims about check_service_health and shutdown (SpecHandles).           *)
(***************************************************************************)
\* C11: check_service_health reports RUNNING while the process of the
\* handle is alive, STOPPED when it exited with status 0, and FAILED when it
\* exited with another status or the service has no handle.
C11_HealthClassifies ==
    (ret.op = "check_service_health" /\ ~ret.input.probeFails) =>
        LET name == ret.input.service_name
        IN  ret.val.status =
              IF name \notin DOMAIN ret.pre.processes THEN "FAILED"
              ELSE IF IsAlive(ret.pre, ret.pre.processes[name]) THEN "RUNNING"
              ELSE IF ret.pre.procs[ret.pre.processes[name]].code = 0 THEN "STOPPED"
              ELSE "FAILED"

\* The requests the last call issued (positions in termLog), the handle
\* table it was called on, and the handles that were live then.
CallAttempts == (Len(ret.pre.termLog) + 1)..Len(termLog)
HandlesBefore == DOMAIN ret.pre.processes
LiveBefore == {n \in HandlesBefore : IsAlive(ret.pre, ret.pre.processes[n])}

\* The positions of the requests of kind sig the last call sent to the
\* process of handle n.
SentTo(n, sig) ==
    {i \in CallAttempts : /\ termLog[i].pid = ret.pre.processes[n]
                          /\ termLog[i].sig = sig}

\* C12: shutdown() is best-effort: whatever subset of the live handles has
\* a step that raises, every live handle gets its terminate, the handle
\* table is empty afterwards, and the result is False exactly when some
\* step raised.
C12_ShutdownBestEffort ==
    ret.op = "shutdown" =>
        /\ \A n \in LiveBefore : SentTo(n, "terminate") # {}
        /\ processes = NoHandles
        /\ (ret.val = FALSE) <=> (ret.input # {})

\* C12 witness: the step of the first handle raised and a later handle was
\* live too.
C12_Witness ==
    /\ ret.op = "shutdown"
    /\ Len(config.services) >= 2
    /\ ConfiguredNames[1] \in ret.input
    /\ ConfiguredNames[2] \in LiveBefore \ ret.input

\* C13: in shutdown() a process that has already exited gets neither
\* terminate nor kill; a live one gets one terminate first, and a kill only
\* after that terminate and only when it had not exited within the wait.
C13_TerminateThenKill ==
    ret.op = "shutdown" =>
        /\ \A i \in CallAttempts :
              \E n \in LiveBefore : termLog[i].pid = ret.pre.processes[n]
        /\ \A n \in LiveBefore :
              /\ Cardinality(SentTo(n, "terminate")) = 1
              /\ \A i \in SentTo(n, "kill") :
                    /\ \E j \in SentTo(n, "terminate") : j < i
                    /\ ret.pre.procs[ret.pre.processes[n]].onTerm # "exits"
              /\ ret.pre.procs[ret.pre.processes[n]].onTerm = "exits"
                    => SentTo(n, "kill") = {}

\* C13 witness: one handle's process had already exited and another one's
\* was killed after its terminate.
C13_Witness ==
    /\ ret.op = "shutdown"
    /\ HandlesBefore \ LiveBefore # {}
    /\ \E n \in LiveBefore : SentTo(n, "kill") # {}

\* C14: shutdown() called on an empty handle table, or on one whose
\* processes have all exited, returns True, sends no request, changes no
\* process and leaves the handle table empty.
C14_ShutdownIdempotent ==
    (ret.op = "shutdown" /\ LiveBefore = {}) =>
        /\ ret.val = TRUE
        /\ CallAttempts = {}
        /\ procs = ret.pre.procs
        /\ processes = NoHandles

\* C14 witness: a second shutdown() right after one that terminated a
\* process.
C14_Witness ==
    /\ hist = <<"shutdown", "shutdown">>
    /\ termLog # <<>>
    /\ ret.op = "shutdown"

(***************************************************************************)
(* Claims about kill_processes_on_ports (SpecReap).                        *)
(***************************************************************************)
\* pid owns a socket in LISTEN state bound to exactly this port.
HasListener(pid, port) ==
    \E i \in 1..Len(socks) :
        /\ socks[i].status = "LISTEN"
        /\ socks[i].lport = port
        /\ socks[i].pid = pid

\* Some target port had a listener when the last call began.
TargetListenerBefore ==
    \E i \in 1..Len(socks) : \E k \in 1..Len(config.target_ports) :
        /\ socks[i].status = "LISTEN"
        /\ socks[i].lport = config.target_ports[k]
        /\ IsAlive(ret.pre, socks[i].pid)

\* C9: kill_processes_on_ports terminates, and records under port p, only
\* processes that have a LISTENING entry bound to port p itself (a listener
\* on 8080 is never terminated for target 80), and it returns the empty
\* mapping when no target port has a listener.
C9_OnlyListenersOfThePort ==
    /\ \A i \in 1..Len(termLog) :
          (termLog[i].by = "kill_processes_on_ports" /\ termLog[i].ok)
              => HasListener(termLog[i].pid, termLog[i].port)
    /\ ret.op = "kill_processes_on_ports"
          => /\ \A p \in DOMAIN ret.val : \A i \in 1..Len(ret.val[p]) :
                   HasListener(ret.val[p][i], p)
             /\ ~TargetListenerBefore => ret.val = EmptyMap

(***************************************************************************)
(* Claims about manage_cloud_handshake (SpecGuard).                        *)
(***************************************************************************)
\* c is an ESTABLISHED connection whose remote address matches a pattern.
Matching(c) ==
    /\ c.status = "ESTABLISHED"
    /\ c.raddr # <<>>
    /\ \E j \in 1..Len(config.blocked) : _matches_pattern(c.raddr, config.blocked[j])

\* The connection table the last call scanned, and the attempts it logged.
Scanned == Visible(ret.pre)
NewAttempts == (Len(ret.pre.termLog) + 1)..Len(termLog)
GuardReturned == ret.op = "manage_cloud_handshake" /\ ret.val.status = "SUCCESS"

\* C7: when every termination succeeds, redirected_connections equals the
\* number M of ESTABLISHED connections whose remote address matches at least
\* one pattern: each matching connection is terminated and counted once.
C7_CountEqualsMatches ==
    (GuardReturned /\ \A i \in NewAttempts : termLog[i].ok)
        => /\ ret.val.redirected_connections
                  = Cardinality({i \in 1..Len(Scanned) : Matching(Scanned[i])})
           /\ Len(termLog) - Len(ret.pre.termLog)
                  = Cardinality({i \in 1..Len(Scanned) : Matching(Scanned[i])})

\* C8: every termination attempt of manage_cloud_handshake is made on account
\* of an ESTABLISHED connection with a remote address that matches a block
\* pattern, and the count is the number of attempts that succeeded.
C8_OnlyMatchingTerminated ==
    /\ \A i \in 1..Len(termLog) :
          termLog[i].by = "manage_cloud_handshake" => Matching(termLog[i].conn)
    /\ GuardReturned
          => ret.val.redirected_connections
                 = Cardinality({i \in NewAttempts : termLog[i].ok})

\* C8 witness: the call returned after terminating for one connection while
\* the table also held a connection with a remote address that is not a
\* match (not established, or matching no pattern).
C8_Witness ==
    /\ GuardReturned
    /\ ret.val.redirected_connections > 0
    /\ \E i \in 1..Len(Scanned) : Scanned[i].raddr # <<>> /\ ~Matching(Scanned[i])

\* C28: manage_cloud_handshake terminates only the recorded owner of a
\* matching connection and never the launcher itself: for a connection
\* whose owner is unknown no termination is issued.
C28_NeverTerminatesItself ==
    /\ pc # "killed"
    /\ \A i \in 1..Len(termLog) :
          termLog[i].by = "manage_cloud_handshake"
              => /\ termLog[i].conn.pid # NoPid
                 /\ termLog[i].pid = termLog[i].conn.pid

\* Some termination attempt of manage_cloud_handshake failed.
GuardAttemptFailed ==
    \E i \in 1..Len(termLog) :
        termLog[i].by = "manage_cloud_handshake" /\ ~termLog[i].ok

\* C19: a failed termination does not stop the scan of
\* manage_cloud_handshake: the call returns status SUCCESS and every
\* matching connection of the table has got its own termination attempt.
C19_FailureDoesNotStopScan ==
    GuardAttemptFailed
        => /\ GuardReturned
           /\ \A i \in 1..Len(Scanned) :
                 Matching(Scanned[i])
                     => \E j \in NewAttempts : termLog[j].conn = Scanned[i]

(***************************************************************************)
(* Claims about the processes the launcher leaves behind (Spec).           *)
(***************************************************************************)
\* The processes start_services spawned that are still running.
RunningChildren == {p \in AllPids : procs[p].child /\ procs[p].st = "alive"}

\* C26: every process start_services spawned that is still alive is
\* reachable from the handle table until shutdown() empties it, and after a
\* shutdown() in which every termination succeeded no spawned process is
\* still running.
C26_SpawnedStayReachable ==
    /\ ~Before("shutdown", Len(hist) + 1)
          => \A p \in RunningChildren :
                \E n \in DOMAIN processes : processes[n] = p
    /\ (ret.op = "shutdown" /\ ret.val = TRUE) => RunningChildren = {}

(***************************************************************************)
(* Claims about what the two sweeps report (Spec).                         *)
(***************************************************************************)
\* The last call that returned was one of the two sweeps, and the launcher
\* is still running.
SweepReturned ==
    /\ pc # "killed"
    /\ ret.op \in {"kill_processes_on_ports", "manage_cloud_handshake"}

\* The processes the last sweep tried to terminate without ever succeeding.
FailedOwners ==
    {termLog[i].pid : i \in {j \in CallAttempts : ~termLog[j].ok}}
    \ {termLog[i].pid : i \in {j \in CallAttempts : termLog[j].ok}}

\* The world the last sweep started in, without the sockets of the
\* processes it failed to terminate: a sweep there has nothing to fail on.
WithoutFailed ==
    [ret.pre EXCEPT !.socks = SelectSeq(@, LAMBDA s : s.pid \notin FailedOwners)]

\* What the last sweep returns when it is called in world w.
SameSweepOn(w) ==
    IF ret.op = "kill_processes_on_ports"
    THEN kill_processes_on_ports(w, config.target_ports).ret
    ELSE manage_cloud_handshake(w, config.blocked, ret.input).ret

\* C18: every failed termination of a sweep is attached to the value the
\* sweep returns: the value of a sweep that failed to terminate some process
\* differs from the value of the same sweep with nothing to fail on.
C18_FailuresAreReturned ==
    (SweepReturned /\ FailedOwners # {}) => ret.val # SameSweepOn(WithoutFailed)

(***************************************************************************)
(* local_proxy_service.py: the handler of one connection.  A connection is *)
(* a record k; every write the handler attempts on it is appended to       *)
(* k.attempts with ok = FALSE when the write raised (the peer has closed). *)
(***************************************************************************)
\* wfile.write(...) of one block on connection k.
Write(k, kind, status, msg, done) ==
    [k   |-> [k EXCEPT !.attempts =
                Append(@, [kind |-> kind, status |-> status, msg |-> msg,
                           done |-> done, ok |-> k.open])],
     raised |-> ~k.open]

\* send_response(status_code) .. end_headers() and the JSON body.
_send_json_response(k, status_code) ==
    Write(k, "response", status_code, "", "")

\* A call of the backend client made for connection k.
Called(k, op, model, stream) ==
    [k EXCEPT !.calls = Append(@, [op |-> op, model |-> model, stream |-> stream])]

\* The backend cannot be reached: the first thing a call of it does is raise.
BackendDown(stream) == stream # <<>> /\ stream[1].kind = "raise"

\* GET /status: the backend probe is caught, the response is always 200.
_handle_status(k) == _send_json_response(Called(k, "list", "", "false"), 200)

\* GET /models: 200 with the model list, 500 when anything in the try
\* raised (the backend, or the write of the 200).
_handle_models(k, stream) ==
    LET c == Called(k, "list", "", "false")
    IN  IF BackendDown(stream) THEN _send_json_response(c, 500)
        ELSE LET r == _send_json_response(c, 200)
             IN  IF r.raised THEN _send_json_response(r.k, 500) ELSE r

\* The object a body that could not be read is taken for.
EmptyObject == Body(TRUE, "object", "absent", "absent", "absent")

\* _get_post_data: the parsed body, {} when reading or parsing raised.
_get_post_data(body) ==
    IF ~body.length \/ body.json = "invalid" THEN EmptyObject ELSE body

\* data.get('model', 'llama3.1:latest')
get_model(data) == IF data.model = "absent" THEN "llama3.1:latest" ELSE data.model

\* `if not messages` on data.get('messages', [])
NoMessages(data) == data.messages \in {"absent", "empty"}

\* `if stream` on data.get('stream', False)
WantsStream(data) == data.stream = "true"

\* response.get('done', False)
get_done(response) ==
    IF response.done = "absent" THEN "false" ELSE response.done

\* A forwarding loop without the break: no chunk ends it.
BreakAfter_Never(response) == FALSE

\* `if response.get('done', False): break`
BreakAfter(response) == get_done(response) = "true"

\* The except block of the streaming handler, re-raising what it caught.
StreamExcept_Reraise(k) ==
    [k |-> Write(k, "error_event", 0, "", "").k, raised |-> TRUE]

\* The except block of _handle_streaming_chat: one error event is written
\* and flushed; a failure of that write leaves the method as an exception.
StreamExcept(k) == Write(k, "error_event", 0, "", "")

\* The except block of _handle_chat: a 500 JSON response.
ChatExcept(k) == _send_json_response(k, 500)

\* An exception inside the try of _handle_streaming_chat, followed to the
\* end of _handle_chat.
StreamFail(k) ==
    LET e == StreamExcept(k)
    IN  IF e.raised THEN ChatExcept(e.k).k ELSE e.k

\* The handler has returned (or left with an exception the server logs):
\* the server closes the connection and is free again.
Finished(k) == [k EXCEPT !.phase = "finished"]

\* _handle_streaming_chat up to the forwarding loop: the header block of
\* the event stream, then the call of the backend.
StreamBegin(k, model) ==
    LET h == Write(k, "headers", 200, "", "")
    IN  IF h.raised THEN Finished(StreamFail(h.k))
        ELSE [Called(h.k, "chat", model, "true") EXCEPT !.phase = "streaming"]

\* _handle_non_streaming_chat: one call of the backend, 200 with its
\* response, 500 when anything in the try raised; an exception of that 500
\* reaches the except of _handle_chat.
_handle_non_streaming_chat(k, model, stream) ==
    LET c == Called(k, "chat", model, "false")
        r == IF BackendDown(stream) THEN _send_json_response(c, 500)
             ELSE LET ok == _send_json_response(c, 200)
                  IN  IF ok.raised THEN _send_json_response(ok.k, 500) ELSE ok
    IN  Finished(IF r.raised THEN ChatExcept(r.k).k ELSE r.k)

\* _handle_chat for a body without messages: 400, and the 500 of the
\* except block when writing the 400 raised.
ChatWithoutMessages(k) ==
    LET r == _send_json_response(k, 400)
    IN  Finished(IF r.raised THEN ChatExcept(r.k).k ELSE r.k)

\* _handle_chat up to the point where a streaming handler waits for the
\* backend.  A body that is valid JSON but no object has no get(): the
\* except block answers.
_handle_chat(k, stream) ==
    LET data == _get_post_data(k.body)
    IN  IF data.json # "object" THEN Finished(ChatExcept(k).k)
        ELSE IF NoMessages(data) THEN ChatWithoutMessages(k)
        ELSE IF WantsStream(data) THEN StreamBegin(k, get_model(data))
        ELSE _handle_non_streaming_chat(k, get_model(data), stream)

\* One turn of `for response in response_stream:` with backend script
\* stream: the next item is pulled; an exhausted stream ends the loop, a
\* failing backend raises, a chunk is written as one event and flushed.
StreamTurn(k, stream) ==
    LET i == k.cursor + 1
    IN  IF i > Len(stream) THEN Finished(k)
        ELSE LET pulled == [k EXCEPT !.cursor = i]
             IN  IF stream[i].kind = "raise" THEN Finished(StreamFail(pulled))
                 ELSE LET w == Write(pulled, "event", 0, stream[i].msg,
                                     get_done(stream[i]))
                      IN  IF w.raised THEN Finished(StreamFail(w.k))
                          ELSE IF BreakAfter(stream[i]) THEN Finished(w.k)
                          ELSE w.k

\* What the client has received on connection k.
Received(k) == SelectSeq(k.attempts, LAMBDA a : a.ok)

(***************************************************************************)
(* SpecProxy: the proxy server.  HTTPServer.serve_forever runs in one      *)
(* thread: it takes one connection from the listen queue, runs its handler *)
(* to the end and only then takes the next one.                            *)
(***************************************************************************)
\* What the backend does for a chat call with stream=True: it yields chunks
\* and may raise instead of yielding the next one.
ChunkItems == [kind : {"chunk"}, msg : {"a", "b"},
               done : {"true", "false", "absent"}]
RaiseItem == [kind |-> "raise", msg |-> "", done |-> "absent"]
Scripts ==
    {s \in SeqsUpTo(ChunkItems \cup {RaiseItem}, MaxChunks) :
        \A i \in 1..(Len(s) - 1) : s[i].kind # "raise"}

\* A chat body asking for a stream, and one without messages.
StreamBody == Body(TRUE, "object", "x", "some", "true")
NoMessagesBody == Body(TRUE, "object", "x", "absent", "false")

Request(line, body) == [line |-> line, body |-> body]

Requests == {Request("GET /status", NoBody), Request("POST /chat", StreamBody),
             Request("POST /chat", NoMessagesBody)}

InitProxy ==
    /\ config = BaseConfig
    /\ procs \in {t \in ProcTables : \A p \in ExternalPids : t[p].onTerm = "exits"}
    /\ socks = <<>>
    /\ processes = NoHandles
    /\ termLog = <<>>
    /\ pc = "proxy"
    /\ ret = NoRet
    /\ hist = <<>>
    /\ chunks \in Scripts
    /\ backlog = <<>>
    /\ serving = "idle"
    /\ conn = [c \in Clients |-> FreshConn]
    /\ ObjectsFresh

\* A client connects and sends its request; the connection waits in the
\* listen queue of the server socket.
ClientRequest(c, r) ==
    /\ conn[c].phase = "new"
    /\ conn' = [conn EXCEPT ![c] = [@ EXCEPT !.req = r.line, !.body = r.body,
                                              !.phase = "queued"]]
    /\ backlog' = Append(backlog, c)
    /\ UNCHANGED <<chunks, serving>>
    /\ UNCHANGED <<launcherVars, objectVars>>

\* The client closes its connection; writes to it raise from now on.
ClientClose(c) ==
    /\ conn[c].phase \in {"queued", "streaming"}
    /\ conn[c].open
    /\ conn' = [conn EXCEPT ![c] = [@ EXCEPT !.open = FALSE]]
    /\ UNCHANGED <<chunks, backlog, serving>>
    /\ UNCHANGED <<launcherVars, objectVars>>

\* do_GET / do_POST of the connection k the server has taken.
Handle(k, stream) ==
    CASE k.req = "GET /status" -> Finished(_handle_status(k).k)
      [] k.req = "GET /models" -> Finished(_handle_models(k, stream).k)
      [] k.req = "POST /chat" -> _handle_chat(k, stream)

\* The server thread takes the next connection and runs its handler, up to
\* the point where the handler waits for the backend stream.
Accept ==
    /\ serving = "idle"
    /\ backlog # <<>>
    /\ LET c == Head(backlog)
           k == Handle(conn[c], chunks)
       IN  /\ conn' = [conn EXCEPT ![c] = k]
           /\ serving' = IF k.phase = "streaming" THEN c ELSE "idle"
    /\ backlog' = Tail(backlog)
    /\ UNCHANGED chunks
    /\ UNCHANGED <<launcherVars, objectVars>>

\* The backend stream produces its next item for the handler in progress.
StreamStep ==
    /\ serving \in Clients
    /\ conn[serving].phase = "streaming"
    /\ LET k == StreamTurn(conn[serving], chunks)
       IN  /\ conn' = [conn EXCEPT ![serving] = k]
           /\ serving' = IF k.phase = "streaming" THEN serving ELSE "idle"
    /\ UNCHANGED <<chunks, backlog>>
    /\ UNCHANGED <<launcherVars, objectVars>>

NextProxy ==
    \/ \E c \in Clients, r \in Requests : ClientRequest(c, r)
    \/ \E c \in Clients : ClientClose(c)
    \/ Accept
    \/ StreamStep

SpecProxy == InitProxy /\ [][NextProxy]_vars

(***************************************************************************)
(* Claims about the proxy (SpecProxy).                                     *)
(***************************************************************************)
\* C3: while one client's streaming POST /chat is open and waiting for
\* backend chunks, the request of a second client waiting in the listen
\* queue can be accepted and answered.
C3_AcceptsDuringStream ==
    \A c, d \in Clients :
        (conn[c].phase = "streaming" /\ conn[d].phase = "queued")
            => ENABLED Accept

\* The header block of an event stream, as the client receives it.
HeadersSeen == [kind |-> "headers", status |-> 200, msg |-> "", done |-> "",
                ok |-> TRUE]

\* The event the client is to receive for a chunk.
EventSeen(msg, done) == [kind |-> "event", status |-> 0, msg |-> msg,
                         done |-> done, ok |-> TRUE]

ErrorEventSeen == [kind |-> "error_event", status |-> 0, msg |-> "",
                   done |-> "", ok |-> TRUE]

MarkedDone(item) == item.kind = "chunk" /\ item.done = "true"

\* The backend yields chunks 1..n without failing and none before n is
\* marked done.
PlainUpTo(n) ==
    \A i \in 1..n : chunks[i].kind = "chunk" /\ (i < n => ~MarkedDone(chunks[i]))

\* The backend yields chunks 1..j without failing and none is marked done.
NoneDoneUpTo(j) ==
    \A i \in 1..j : chunks[i].kind = "chunk" /\ ~MarkedDone(chunks[i])

\* A streaming chat whose handler has ended and whose client stayed connected.
StreamServed(c) ==
    /\ conn[c].req = "POST /chat"
    /\ conn[c].body = StreamBody
    /\ conn[c].phase = "finished"
    /\ conn[c].open

\* C4: when the first chunk marked done is chunk n, the client of a
\* streaming chat receives the header block and exactly the events of chunks
\* 1..n in order, each with the message of its chunk and done = true only on
\* the last; no later chunk is pulled and nothing else is written.
C4_StreamEndsAtFirstDone ==
    \A c \in Clients : \A n \in 1..Len(chunks) :
        (StreamServed(c) /\ PlainUpTo(n) /\ MarkedDone(chunks[n]))
            => /\ Received(conn[c]) =
                    <<HeadersSeen>> \o
                    [i \in 1..n |-> EventSeen(chunks[i].msg,
                                       IF i = n THEN "true" ELSE "false")]
               /\ conn[c].attempts = Received(conn[c])
               /\ conn[c].cursor = n

\* C4 witness: a served stream whose first done chunk is not the first chunk
\* and is followed by a further chunk.
C4_Witness ==
    \E c \in Clients : \E n \in 2..(Len(chunks) - 1) :
        /\ StreamServed(c) /\ PlainUpTo(n) /\ MarkedDone(chunks[n])
        /\ chunks[n + 1].kind = "chunk"

\* C5: when the backend fails after j chunks, none of them done, the client
\* of a streaming chat receives the header block, the j chunk events in
\* order and exactly one error event, and nothing else is written.
C5_OneErrorEvent ==
    \A c \in Clients : \A j \in 0..(Len(chunks) - 1) :
        (StreamServed(c) /\ NoneDoneUpTo(j) /\ chunks[j + 1].kind = "raise")
            => /\ Received(conn[c]) =
                    (<<HeadersSeen>> \o
                     [i \in 1..j |-> EventSeen(chunks[i].msg, "false")]) \o
                    <<ErrorEventSeen>>
               /\ conn[c].attempts = Received(conn[c])

\* C5 witness: a served stream whose backend failed after at least one
\* forwarded chunk.
C5_Witness ==
    \E c \in Clients : \E j \in 1..(Len(chunks) - 1) :
        StreamServed(c) /\ NoneDoneUpTo(j) /\ chunks[j + 1].kind = "raise"

\* C6: once the write of an event has failed, the handler pulls no further
\* chunk, attempts nothing more on the connection and ends.
C6_StopsAtFailedWrite ==
    \A c \in Clients : \A i \in 1..Len(conn[c].attempts) :
        (conn[c].attempts[i].kind = "event" /\ ~conn[c].attempts[i].ok)
            => /\ conn[c].phase = "finished"
               /\ conn[c].cursor =
                    Len(SelectSeq(conn[c].attempts, LAMBDA a : a.kind = "event"))
               /\ i = Len(conn[c].attempts)

(***************************************************************************)
(* SpecChat: one client of the proxy, every kind of request and body.      *)
(***************************************************************************)
\* The bodies a POST /chat may carry: none, bytes that are no JSON, JSON
\* that is no object, and objects with every combination of the three
\* fields _handle_chat reads.
ChatBodies ==
    {NoBody, Body(TRUE, "invalid", "absent", "absent", "absent"),
     Body(TRUE, "array", "absent", "absent", "absent")}
    \cup {Body(TRUE, "object", m, ms, st) :
            m \in {"absent", "x"}, ms \in {"absent", "empty", "some"},
            st \in {"absent", "false", "true"}}

ChatRequests ==
    {Request("GET /status", NoBody), Request("GET /models", NoBody)}
    \cup {Request("POST /chat", b) : b \in ChatBodies}

NextChat ==
    \/ \E r \in ChatRequests : ClientRequest("c1", r)
    \/ ClientClose("c1")
    \/ Accept
    \/ StreamStep

SpecChat == InitProxy /\ [][NextChat]_vars

(***************************************************************************)
(* Claims about request validation and backend failures (SpecChat).        *)
(***************************************************************************)
\* The handler of c has returned and the client kept the connection open
\* throughout, so every write reached it.
Answered(c) == conn[c].phase = "finished" /\ conn[c].open

\* A JSON response with the given status, as the client sees it.
ResponseSeen(status) ==
    [kind |-> "response", status |-> status, msg |-> "", done |-> "", ok |-> TRUE]

\* A body that is missing or malformed: no Content-Length, no valid JSON,
\* no object, or an object without a non-empty message list.
Malformed(b) ==
    \/ ~b.length
    \/ b.json # "object"
    \/ b.messages \in {"absent", "empty"}

\* C15: every POST /chat with a missing or malformed body is answered with
\* status 400 and a JSON error body, and the backend is never called for it.
C15_MalformedBodyIs400 ==
    \A c \in Clients :
        (Answered(c) /\ conn[c].req = "POST /chat" /\ Malformed(conn[c].body))
            => /\ Received(conn[c]) = <<ResponseSeen(400)>>
               /\ conn[c].calls = <<>>

\* C16: a POST /chat with a non-empty message list but no model field is
\* rejected with status 400 and not forwarded to the backend.
C16_MissingModelIs400 ==
    \A c \in Clients :
        (/\ Answered(c)
         /\ conn[c].req = "POST /chat"
         /\ ~Malformed(conn[c].body)
         /\ conn[c].body.model = "absent")
            => /\ Received(conn[c]) = <<ResponseSeen(400)>>
               /\ conn[c].calls = <<>>

\* C17: when the backend is unreachable, GET /models and POST /chat with a
\* valid body (stream false or true) are answered with status 500 and a
\* JSON error body.
C17_BackendDownIs500 ==
    \A c \in Clients :
        (/\ Answered(c)
         /\ BackendDown(chunks)
         /\ \/ conn[c].req = "GET /models"
            \/ /\ conn[c].req = "POST /chat"
               /\ ~Malformed(conn[c].body)
               /\ conn[c].body.model = "x"
               /\ conn[c].body.stream \in {"false", "true"})
            => Received(conn[c]) = <<ResponseSeen(500)>>

(***************************************************************************)
(* SpecConfig: UniversalLauncher.__init__ on any configuration file.       *)
(* A dict is a function from its keys; the launcher under construction is  *)
(* the set of attributes assigned so far.                                  *)
(***************************************************************************)
\* default_config of load_config.
default_config ==
    [target_ports |-> DefaultTargetPorts,
     waz_doc_path |-> "waz_doc.json",
     services |-> "proxy_service",
     environment_variables |-> "OLLAMA_HOST",
     cleanup_on_startup |-> TRUE,
     monitor_waz_doc |-> TRUE]

ConfigKeys == DOMAIN default_config

\* Files that give every key a value of their own, with three lists of
\* target ports.
FullFiles ==
    {[target_ports |-> tp,
      waz_doc_path |-> "other.json",
      services |-> "none",
      environment_variables |-> "none",
      cleanup_on_startup |-> FALSE,
      monitor_waz_doc |-> FALSE] : tp \in {<<>>, <<80>>, DefaultTargetPorts}}

EmptyDict == [k \in {} |-> 0]

\* The states of the file at config_path: absent, unreadable, no valid
\* JSON, or a JSON object with any subset of the top-level keys.
ConfigFiles ==
    {[state |-> st, json |-> EmptyDict] : st \in {"absent", "unreadable", "invalid"}}
    \cup {[state |-> "present", json |-> [k \in K |-> full[k]]] :
            full \in FullFiles, K \in SUBSET ConfigKeys}

\* dict.get(key, default)
Get(d, key, default) == IF key \in DOMAIN d THEN d[key] ELSE default

\* `for key, value in default_config.items(): if key not in config: ...`
MergeDefaults(cfg) ==
    [k \in DOMAIN cfg \cup ConfigKeys |-> Get(cfg, k, default_config[k])]

\* self.logger.warning / self.logger.error: an AttributeError while the
\* logger attribute of the launcher is not assigned yet.
LogRaises(attrs) == "logger" \notin attrs

\* load_config called on a launcher with attributes attrs.  The else
\* branch logs a warning inside the try; the except block logs an error,
\* and an exception of that call leaves load_config.
load_config(attrs, file) ==
    LET inTryRaises == \/ file.state \in {"unreadable", "invalid"}
                       \/ file.state = "absent" /\ LogRaises(attrs)
    IN  IF file.state = "present"
        THEN [raised |-> FALSE, config |-> MergeDefaults(file.json)]
        ELSE IF inTryRaises /\ LogRaises(attrs)
        THEN [raised |-> TRUE, config |-> EmptyDict]
        ELSE [raised |-> FALSE, config |-> default_config]

\* UniversalLauncher.__init__: load_config runs with only config_path
\* assigned; the logger is set up after it.
__init__(file) ==
    LET loaded == load_config({"config_path"}, file)
    IN  IF loaded.raised
        THEN [raised |-> TRUE, config |-> EmptyDict, target_ports |-> <<>>]
        ELSE [raised |-> FALSE, config |-> loaded.config,
              target_ports |-> Get(loaded.config, "target_ports",
                                   DefaultTargetPorts)]

InitConfig ==
    /\ config = EmptyDict
    /\ procs \in {t \in ProcTables : \A p \in ExternalPids : t[p].onTerm = "exits"}
    /\ socks = <<>>
    /\ processes = NoHandles
    /\ termLog = <<>>
    /\ pc = "new"
    /\ ret = NoRet
    /\ hist = <<>>
    /\ ProxyQuiet
    /\ ObjectsFresh

\* UniversalLauncher(config_path) with the file in any of its states.
Construct ==
    /\ pc = "new"
    /\ \E file \in ConfigFiles :
          LET r == __init__(file)
          IN  /\ config' = r.config
              /\ ret' = [op |-> "__init__", val |-> r, pre |-> W, input |-> file]
              /\ pc' = IF r.raised THEN "raised" ELSE "constructed"
    /\ hist' = Append(hist, "__init__")
    /\ UNCHANGED <<procs, socks, processes, termLog>>
    /\ UNCHANGED <<proxyVars, objectVars>>

NextConfig == Construct

SpecConfig == InitConfig /\ [][NextConfig]_vars

(***************************************************************************)
(* Claims about the constructor (SpecConfig).                              *)
(***************************************************************************)
\* C20: for every state of the configuration file, constructing the
\* launcher completes without raising and every key has the file's value
\* when the file gives one and its default otherwise; target_ports is the
\* file's list when present and [8080, 11434] otherwise.
C20_ConstructorFallsBack ==
    ret.op = "__init__"
        => /\ ~ret.val.raised
           /\ \A k \in ConfigKeys :
                 config[k] = Get(ret.input.json, k, default_config[k])
           /\ ret.val.target_ports
                 = Get(ret.input.json, "target_ports", <<8080, 11434>>)

(***************************************************************************)
(* SpecMatch: _matches_pattern applied to any candidate and any pattern    *)
(* of MaxLen characters at most over a letter, the dot and the star.       *)
(***************************************************************************)
MatchAlphabet == {"a", ".", "*"}
MatchTexts == SeqsUpTo(MatchAlphabet, MaxLen)

InitMatch ==
    /\ config = BaseConfig
    /\ procs \in {t \in ProcTables : \A p \in ExternalPids : t[p].onTerm = "exits"}
    /\ socks = <<>>
    /\ processes = NoHandles
    /\ termLog = <<>>
    /\ pc = "match"
    /\ \E ip_address \in MatchTexts, pattern \in MatchTexts :
          ret = [op |-> "none", val |-> FALSE, pre |-> 0,
                 input |-> [ip_address |-> ip_address, pattern |-> pattern]]
    /\ hist = <<>>
    /\ ProxyQuiet
    /\ ObjectsFresh

\* One call of _matches_pattern on the drawn candidate and pattern.
ApiMatch ==
    /\ pc = "match"
    /\ ret' = [ret EXCEPT !.op = "_matches_pattern",
                          !.val = _matches_pattern(ret.input.ip_address,
                                                   ret.input.pattern)]
    /\ pc' = "matched"
    /\ hist' = Append(hist, "_matches_pattern")
    /\ UNCHANGED <<config, procs, socks, processes, termLog>>
    /\ UNCHANGED <<proxyVars, objectVars>>

NextMatch == ApiMatch

SpecMatch == InitMatch /\ [][NextMatch]_vars

(***************************************************************************)
(* Claims about _matches_pattern (SpecMatch).                              *)
(***************************************************************************)
\* The candidate and the pattern of the call that returned.
Matched == ret.op = "_matches_pattern"
Candidate == ret.input.ip_address
Pattern == ret.input.pattern

\* t without its first n and its last m characters.
Strip(t, n, m) == SubSeq(t, 1 + n, Len(t) - m)

\* C21: _matches_pattern equals the reference.  A pattern ending in ".*"
\* asks for a candidate starting with the pattern minus its last two
\* characters; otherwise a pattern starting with "*" asks for a candidate
\* ending with the pattern minus its first character; otherwise the
\* candidate ends with the pattern or contains it.  The first case that
\* applies decides.
C21_MatchesReference ==
    Matched =>
        LET dotStar == Len(Pattern) >= 2 /\ Pattern[Len(Pattern) - 1] = "."
                                        /\ Pattern[Len(Pattern)] = "*"
            star == Len(Pattern) >= 1 /\ Pattern[1] = "*"
        IN  /\ dotStar => (ret.val <=> StartsWith(Candidate, Strip(Pattern, 0, 2)))
            /\ (~dotStar /\ star)
                  => (ret.val <=> EndsWith(Candidate, Strip(Pattern, 1, 0)))
            /\ (~dotStar /\ ~star)
                  => (ret.val <=> (EndsWith(Candidate, Pattern)
                                   \/ Contains(Candidate, Pattern)))

\* C21 witness: a call with a pattern of both shapes, "*.*", on a candidate
\* the two readings disagree about.
C21_Witness ==
    /\ Matched
    /\ Pattern = <<"*", ".", "*">>
    /\ StartsWith(Candidate, <<"*">>) # EndsWith(Candidate, <<".", "*">>)

\* C22: _matches_pattern is false on empty input: an empty candidate with
\* any pattern, and an empty pattern, "*" or ".*" with any candidate.
C22_EmptyInputIsFalse ==
    (Matched /\ (\/ Candidate = <<>>
                 \/ Pattern \in {<<>>, <<"*">>, <<".", "*">>}))
        => ~ret.val

\* C23: _matches_pattern(prefix + suffix, "*" + suffix) is true for every
\* prefix and suffix, suffixes ending in ".*" included.
C23_StarSuffixMatches ==
    (/\ Matched
     /\ StartsWith(Pattern, <<"*">>)
     /\ EndsWith(Candidate, Strip(Pattern, 1, 0)))
        => ret.val

(***************************************************************************)
(* SpecDomains: the domain checks of the verification scripts, run on the  *)
(* block list fix_launcher_configuration writes, on any MaxCalls of the    *)
(* domains the scripts list, in any order.                                 *)
(***************************************************************************)
\* fixed_config['cloud_handshake_management']['blocked_external_domains'].
blocked_external_domains ==
    <<<<"*", ".", "a", "l", "i", "b", "a", "b", "a", ".", "c", "o", "m">>,
      <<"*", ".", "a", "l", "i", "y", "u", "n", ".", "c", "o", "m">>,
      <<"*", ".", "q", "o", "d", "e", "r", ".", "a", "i">>,
      <<"*", ".", "q", "o", "d", "e", "r", ".", "s", "h">>,
      <<"8", ".", "2", "1", "2", ".", "*">>,
      <<"1", "3", "9", ".", "1", "9", "6", ".", "*">>,
      <<"c", "u", "r", "s", "o", "r", ".", "s", "h">>,
      <<"o", "p", "e", "n", "a", "i", ".", "c", "o", "m">>,
      <<"a", "n", "t", "h", "r", "o", "p", "i", "c", ".", "c", "o", "m">>,
      <<"h", "w", "s", "d", "i", "g", "i", "t", "a", "l", "b", "d", ".", "c", "o", "m">>,
      <<"e", "x", "c", "h", "a", "n", "g", "e", ".", "x", "i", "n", "e", "w", "a", "l", "l", "e", "t", ".", "c", "o", "m">>,
      <<"c", "e", "n", "t", "e", "r", ".", "q", "o", "d", "e", "r", ".", "s", "h">>,
      <<"o", "p", "e", "n", "a", "p", "i", ".", "q", "o", "d", "e", "r", ".", "s", "h">>,
      <<"q", "t", "s", "1", ".", "q", "o", "d", "e", "r", ".", "s", "h">>,
      <<"q", "t", "s", "2", ".", "q", "o", "d", "e", "r", ".", "s", "h">>,
      <<"r", "e", "p", "o", "2", ".", "q", "o", "d", "e", "r", ".", "s", "h">>,
      <<"a", "p", "i", "2", ".", "q", "o", "d", "e", "r", ".", "s", "h">>,
      <<"m", "a", "r", "k", "e", "t", "p", "l", "a", "c", "e", ".", "q", "o", "d", "e", "r", ".", "s", "h">>,
      <<"a", "m", "a", "z", "o", "n", "a", "w", "s", ".", "c", "o", "m">>,
      <<"a", "w", "s", ".", "a", "m", "a", "z", "o", "n", ".", "c", "o", "m">>>>

\* domain_verification_test.TARGET_DOMAINS.
TARGET_DOMAINS ==
    <<<<"c", "u", "r", "s", "o", "r", ".", "s", "h">>,
      <<"o", "p", "e", "n", "a", "i", ".", "c", "o", "m">>,
      <<"a", "n", "t", "h", "r", "o", "p", "i", "c", ".", "c", "o", "m">>,
      <<"h", "w", "s", "d", "i", "g", "i", "t", "a", "l", "b", "d", ".", "c", "o", "m">>,
      <<"e", "x", "c", "h", "a", "n", "g", "e", ".", "x", "i", "n", "e", "w", "a", "l", "l", "e", "t", ".", "c", "o", "m">>,
      <<"c", "e", "n", "t", "e", "r", ".", "q", "o", "d", "e", "r", ".", "s", "h">>,
      <<"o", "p", "e", "n", "a", "p", "i", ".", "q", "o", "d", "e", "r", ".", "s", "h">>,
      <<"q", "t", "s", "1", ".", "q", "o", "d", "e", "r", ".", "s", "h">>,
      <<"q", "t", "s", "2", ".", "q", "o", "d", "e", "r", ".", "s", "h">>,
      <<"r", "e", "p", "o", "2", ".", "q", "o", "d", "e", "r", ".", "s", "h">>,
      <<"a", "p", "i", "2", ".", "q", "o", "d", "e", "r", ".", "s", "h">>,
      <<"m", "a", "r", "k", "e", "t", "p", "l", "a", "c", "e", ".", "q", "o", "d", "e", "r", ".", "s", "h">>,
      <<"a", "m", "a", "z", "o", "n", "a", "w", "s", ".", "c", "o", "m">>,
      <<"a", "w", "s", ".", "a", "m", "a", "z", "o", "n", ".", "c", "o", "m">>,
      <<"a", "l", "i", "b", "a", "b", "a", ".", "c", "o", "m">>,
      <<"a", "l", "i", "y", "u", "n", ".", "c", "o", "m">>,
      <<"q", "o", "d", "e", "r", ".", "a", "i">>>>

\* domain_verification_test.ALLOWED_DOMAINS.
ALLOWED_DOMAINS ==
    <<<<"l", "o", "c", "a", "l", "h", "o", "s", "t">>,
      <<"1", "2", "7", ".", "0", ".", "0", ".", "1">>>>

\* simple_domain_test.test_domains.
test_domains ==
    <<<<"c", "u", "r", "s", "o", "r", ".", "s", "h">>,
      <<"o", "p", "e", "n", "a", "i", ".", "c", "o", "m">>,
      <<"a", "p", "i", ".", "o", "p", "e", "n", "a", "i", ".", "c", "o", "m">>,
      <<"t", "e", "s", "t", ".", "q", "o", "d", "e", "r", ".", "s", "h">>,
      <<"c", "e", "n", "t", "e", "r", ".", "q", "o", "d", "e", "r", ".", "s", "h">>,
      <<"l", "o", "c", "a", "l", "h", "o", "s", "t">>,
      <<"1", "2", "7", ".", "0", ".", "0", ".", "1">>>>

Range(f) == {f[i] : i \in DOMAIN f}

\* any(launcher._matches_pattern(domain, pattern) for pattern in blocked)
AnyPatternMatches(domain, blocked) ==
    \E j \in 1..Len(blocked) : _matches_pattern(domain, blocked[j])

\* status = "BLOCKED" if matches else "ALLOWED"
DomainStatus(domain, blocked) ==
    IF AnyPatternMatches(domain, blocked) THEN "BLOCKED" ELSE "ALLOWED"

InitDomains ==
    /\ config = [BaseConfig EXCEPT !.blocked = blocked_external_domains]
    /\ procs \in {t \in ProcTables : \A p \in ExternalPids : t[p].onTerm = "exits"}
    /\ socks = <<>>
    /\ processes = NoHandles
    /\ termLog = <<>>
    /\ pc = "domains"
    /\ ret = [op |-> "none", val |-> <<>>, pre |-> 0, input |-> 0]
    /\ hist = <<>>
    /\ ProxyQuiet
    /\ ObjectsFresh

\* One turn of the loop over the domains: the domain is classified and the
\* result joins the results so far.
CheckDomain ==
    /\ pc = "domains"
    /\ Len(hist) < MaxCalls
    /\ \E domain \in Range(TARGET_DOMAINS) \cup Range(ALLOWED_DOMAINS)
                    \cup Range(test_domains) :
          ret' = [op |-> "check_domain",
                  val |-> Append(ret.val,
                                 [domain |-> domain,
                                  status |-> DomainStatus(domain, config.blocked)]),
                  pre |-> 0, input |-> 0]
    /\ hist' = Append(hist, "check_domain")
    /\ UNCHANGED <<config, procs, socks, processes, termLog, pc>>
    /\ UNCHANGED <<proxyVars, objectVars>>

NextDomains == CheckDomain

SpecDomains == InitDomains /\ [][NextDomains]_vars

(***************************************************************************)
(* Claims about the block list (SpecDomains).                              *)
(***************************************************************************)
\* C24: with the block list fix_launcher_configuration writes, every
\* domain of TARGET_DOMAINS is classified BLOCKED and neither localhost nor
\* 127.0.0.1 is: they are ALLOWED.
C24_ListedDomainsClassified ==
    ret.op = "check_domain"
        => \A i \in 1..Len(ret.val) :
              /\ ret.val[i].domain \in Range(TARGET_DOMAINS)
                    => ret.val[i].status = "BLOCKED"
              /\ ret.val[i].domain \in Range(ALLOWED_DOMAINS)
                    => ret.val[i].status = "ALLOWED"

(***************************************************************************)
(* liberation_ai_platform.py: LocalAIPlatform.  Every method takes the     *)
(* status dict and the number t of the call (its timestamp) and gives the  *)
(* new status dict and the value it returns.                               *)
(***************************************************************************)
\* dict.update(u) with the dict replaced by u.
Update_Replace(d, u) == u

\* dict.update(u): the keys of u are set, every other key is kept.
Update(d, u) ==
    [k \in DOMAIN d \cup DOMAIN u |-> IF k \in DOMAIN u THEN u[k] ELSE d[k]]

\* d[key] = value
SetItem(d, key, value) == Update(d, key :> value)

\* check_ollama_status.  probe.raises: subprocess.run raised (no ollama
\* binary, timeout); probe.returncode0, probe.port_open: what the version
\* command and _is_port_open gave.
check_ollama_status(self_status, probe, t) ==
    LET ok == [ollama_installed |-> TRUE,
               ollama_running |-> probe.returncode0 /\ probe.port_open,
               ollama_version |-> IF probe.returncode0 THEN "version"
                                  ELSE "Not available",
               port_11434_open |-> probe.port_open,
               check_timestamp |-> t]
        error_status == [ollama_installed |-> FALSE,
                         ollama_running |-> FALSE,
                         ollama_version |-> "Unknown",
                         port_11434_open |-> FALSE,
                         error |-> "str(e)",
                         check_timestamp |-> t]
        st == IF probe.raises THEN error_status ELSE ok
    IN  [status |-> Update(self_status, st), ret |-> st]

\* list_available_models, send_test_prompt, get_system_resources and
\* create_local_proxy_service: each stores its result, or the error result
\* of its except block, under a key of its own and returns it.
StoresUnder(method) ==
    CASE method = "list_available_models" -> "model_list"
      [] method = "send_test_prompt" -> "last_test_prompt"
      [] method = "get_system_resources" -> "system_resources"
      [] method = "create_local_proxy_service" -> "local_proxy_service"

StoreResult(self_status, method, raises, t) ==
    LET result == IF raises THEN [ok |-> FALSE, error |-> "str(e)", timestamp |-> t]
                  ELSE [ok |-> TRUE, error |-> "", timestamp |-> t]
    IN  [status |-> SetItem(self_status, StoresUnder(method), result),
         ret |-> result]

\* generate_json_report: the report holds self.status itself.
generate_json_report(self_status, t) ==
    [status |-> self_status,
     ret |-> [project |-> "project", version |-> "1.0", generation_time |-> t,
              status |-> self_status]]

(***************************************************************************)
(* SpecPlatform: any MaxCalls calls on one LocalAIPlatform.                *)
(***************************************************************************)
Probes ==
    {[raises |-> TRUE, returncode0 |-> FALSE, port_open |-> FALSE]}
    \cup [raises : {FALSE}, returncode0 : BOOLEAN, port_open : BOOLEAN]

InitPlatform ==
    /\ config = BaseConfig
    /\ procs \in {t \in ProcTables : \A p \in ExternalPids : t[p].onTerm = "exits"}
    /\ socks = <<>>
    /\ processes = NoHandles
    /\ termLog = <<>>
    /\ pc = "platform"
    /\ ret = NoRet
    /\ hist = <<>>
    /\ ProxyQuiet
    /\ ObjectsFresh

\* A platform call returned r.
PlatformCommit(r, op, input) ==
    /\ platform_status' = r.status
    /\ ret' = [op |-> op, val |-> r.ret, pre |-> platform_status, input |-> input]
    /\ hist' = Append(hist, op)
    /\ UNCHANGED <<config, procs, socks, processes, termLog, pc, service>>
    /\ UNCHANGED proxyVars

ApiCheckOllama ==
    /\ pc = "platform"
    /\ Len(hist) < MaxCalls
    /\ \E probe \in Probes :
          PlatformCommit(check_ollama_status(platform_status, probe, Len(hist) + 1),
                         "check_ollama_status", probe)

\* create_local_proxy_service only builds a dict in its try: it cannot
\* take its except block.
ApiStore ==
    /\ pc = "platform"
    /\ Len(hist) < MaxCalls
    /\ \E method \in {"list_available_models", "send_test_prompt",
                       "get_system_resources", "create_local_proxy_service"} :
       \E raises \in BOOLEAN :
          /\ method = "create_local_proxy_service" => ~raises
          /\ PlatformCommit(StoreResult(platform_status, method, raises,
                                        Len(hist) + 1),
                            method, raises)

ApiReport ==
    /\ pc = "platform"
    /\ Len(hist) < MaxCalls
    /\ PlatformCommit(generate_json_report(platform_status, Len(hist) + 1),
                      "generate_json_report", 0)

NextPlatform == ApiCheckOllama \/ ApiStore \/ ApiReport

SpecPlatform == InitPlatform /\ [][NextPlatform]_vars

(***************************************************************************)
(* Claims about LocalAIPlatform (SpecPlatform).                            *)
(***************************************************************************)
\* C25: status['platform_initialized'] is True right after construction
\* and stays True after any sequence of calls, whichever path each takes.
C25_StaysInitialized ==
    /\ "platform_initialized" \in DOMAIN platform_status
    /\ platform_status["platform_initialized"] = TRUE

\* C25 witness: a check that took its error path, followed by another call.
C25_Witness ==
    /\ Len(hist) = MaxCalls
    /\ hist[1] = "check_ollama_status"
    /\ "error" \in DOMAIN platform_status

\* C30: after a check_ollama_status that succeeded, the status holds no
\* 'error' key of an earlier failed check, and the status of the report
\* agrees key for key with what the check returned.
C30_StatusIsLatestCheck ==
    (ret.op = "check_ollama_status" /\ ret.val.ollama_installed)
        => LET report == generate_json_report(platform_status, 0).ret
           IN  /\ "error" \notin DOMAIN report.status
               /\ \A k \in DOMAIN ret.val : report.status[k] = ret.val[k]

(***************************************************************************)
(* run_comprehensive_check: the verdict.  Each of the six tests is enabled *)
(* or not in challenge_based_tests; what the call a test makes gave is     *)
(* "ok", "failed" (for manage_cloud_handshake: status ERROR) or "raised".  *)
(***************************************************************************)
Tests == <<"Local Startup Fluency", "Port Conflict Resolution",
           "Environment Variable Access", "Service Startup Sequence",
           "Cloud/Local Switching Stability", "Waz-Doc Change Reaction">>

\* What each test can come to.  Port Conflict Resolution has no FAILED
\* branch: whatever kill_processes_on_ports returns is a pass.
Outcomes(i) == IF i = 2 THEN {"ok", "raised"} ELSE {"ok", "failed", "raised"}

\* The "status" of the test case each test appends.  Test 5 copies the
\* status of manage_cloud_handshake when that is SUCCESS.
TestStatus(i, outcome) ==
    IF outcome = "raised" THEN "ERROR"
    ELSE IF outcome = "failed" THEN "FAILED"
    ELSE IF Tests[i] = "Cloud/Local Switching Stability" THEN "SUCCESS"
    ELSE "PASSED"

\* test_results["test_cases"] after tests i..6, cases holding those before.
RECURSIVE TestCases(_, _, _, _)
TestCases(cases, enabled, outcomes, i) ==
    IF i > Len(Tests) THEN cases
    ELSE TestCases(IF enabled[i]
                   THEN Append(cases, [test_name |-> Tests[i],
                                       status |-> TestStatus(i, outcomes[i])])
                   ELSE cases,
                   enabled, outcomes, i + 1)

\* Lines 643-652: the overall status from the test cases.
OverallStatus(test_cases) ==
    LET passed_tests == Len(SelectSeq(test_cases, LAMBDA t : t.status = "PASSED"))
        total_tests == Len(test_cases)
    IN  IF passed_tests = total_tests THEN "PASS"
        ELSE IF passed_tests > 0 THEN "PARTIAL"
        ELSE "FAIL"

run_comprehensive_check(enabled, outcomes) ==
    LET test_cases == TestCases(<<>>, enabled, outcomes, 1)
    IN  [test_cases |-> test_cases, overall_status |-> OverallStatus(test_cases)]

(***************************************************************************)
(* SpecVerdict: run_comprehensive_check with any tests enabled and any     *)
(* outcome of each.                                                        *)
(***************************************************************************)
InitVerdict ==
    /\ config = BaseConfig
    /\ procs \in {t \in ProcTables : \A p \in ExternalPids : t[p].onTerm = "exits"}
    /\ socks = <<>>
    /\ processes = NoHandles
    /\ termLog = <<>>
    /\ pc = "api"
    /\ ret = NoRet
    /\ hist = <<>>
    /\ ProxyQuiet
    /\ ObjectsFresh

ApiComprehensiveCheck ==
    /\ pc = "api"
    /\ hist = <<>>
    /\ \E enabled \in [1..Len(Tests) -> BOOLEAN] :
       \E outcomes \in {o \in [1..Len(Tests) -> {"ok", "failed", "raised"}] :
                           \A i \in 1..Len(Tests) : o[i] \in Outcomes(i)} :
          ret' = [op |-> "run_comprehensive_check",
                  val |-> run_comprehensive_check(enabled, outcomes),
                  pre |-> W,
                  input |-> [enabled |-> enabled, outcomes |-> outcomes]]
    /\ hist' = Append(hist, "run_comprehensive_check")
    /\ UNCHANGED <<config, procs, socks, processes, termLog, pc>>
    /\ UNCHANGED <<proxyVars, objectVars>>

NextVerdict == ApiComprehensiveCheck

SpecVerdict == InitVerdict /\ [][NextVerdict]_vars

(***************************************************************************)
(* Claims about the verdict (SpecVerdict).                                 *)
(***************************************************************************)
\* The tests that were enabled, and those of them whose check succeeded.
EnabledTests == {i \in 1..Len(Tests) : ret.input.enabled[i]}
SucceededTests == {i \in EnabledTests : ret.input.outcomes[i] = "ok"}

\* C27: overall_status is PASS exactly when every enabled check succeeded,
\* FAIL exactly when none succeeded and PARTIAL otherwise; with all six
\* enabled and succeeding it is PASS.
C27_VerdictCountsSuccesses ==
    (ret.op = "run_comprehensive_check" /\ EnabledTests # {})
        => ret.val.overall_status =
              (IF SucceededTests = EnabledTests THEN "PASS"
               ELSE IF SucceededTests = {} THEN "FAIL"
               ELSE "PARTIAL")

(***************************************************************************)
(* local_proxy_service.py: LiberationAIProxyService.  svc.servers[n] is    *)
(* the state of the n-th HTTPServer the service made: "bound" (listening,  *)
(* no thread serves it), "serving" or "closed".                            *)
(***************************************************************************)
\* The state of a server after stop() with the server left as it is.
AfterClose_StillServing(state) == state

\* server.shutdown() and server.server_close(): the serving loop has ended
\* and the listening socket is closed.
AfterClose(state) == "closed"

\* The port is held by a server of this service that was never closed.
HeldByOwnServer(svc) ==
    \E n \in 1..Len(svc.servers) : svc.servers[n] \in {"bound", "serving"}

\* start().  env.port_busy: another process listens on the port;
\* env.thread_fails: the server thread cannot be started.
start(svc, env) ==
    IF svc.running THEN [svc |-> svc, ret |-> FALSE]
    ELSE IF env.port_busy \/ HeldByOwnServer(svc)
    THEN [svc |-> svc, ret |-> FALSE]
    ELSE LET n == Len(svc.servers) + 1
             made == [svc EXCEPT !.server = n, !.servers = Append(@, "bound")]
         IN  IF env.thread_fails THEN [svc |-> made, ret |-> FALSE]
             ELSE [svc |-> [made EXCEPT !.servers[n] = "serving",
                                        !.running = TRUE],
                   ret |-> TRUE]

\* stop().
stop(svc) ==
    IF ~svc.running THEN [svc |-> svc, ret |-> FALSE]
    ELSE [svc |-> [svc EXCEPT
                     !.servers = IF svc.server # NoServer
                                 THEN [@ EXCEPT ![svc.server] = AfterClose(@)]
                                 ELSE @,
                     !.running = FALSE],
          ret |-> TRUE]

(***************************************************************************)
(* SpecService: any MaxServiceCalls calls of start() and stop() on one     *)
(* LiberationAIProxyService.                                               *)
(***************************************************************************)
InitService ==
    /\ config = BaseConfig
    /\ procs \in {t \in ProcTables : \A p \in ExternalPids : t[p].onTerm = "exits"}
    /\ socks = <<>>
    /\ processes = NoHandles
    /\ termLog = <<>>
    /\ pc = "service"
    /\ ret = NoRet
    /\ hist = <<>>
    /\ ProxyQuiet
    /\ ObjectsFresh

\* A call on the service returned r.
ServiceCommit(r, op, input) ==
    /\ service' = r.svc
    /\ ret' = [op |-> op, val |-> r.ret, pre |-> service, input |-> input]
    /\ hist' = Append(hist, op)
    /\ UNCHANGED <<config, procs, socks, processes, termLog, pc, platform_status>>
    /\ UNCHANGED proxyVars

ApiServiceStart ==
    /\ pc = "service"
    /\ Len(hist) < MaxServiceCalls
    /\ \E env \in [port_busy : BOOLEAN, thread_fails : BOOLEAN] :
          ServiceCommit(start(service, env), "start", env)

ApiServiceStop ==
    /\ pc = "service"
    /\ Len(hist) < MaxServiceCalls
    /\ ServiceCommit(stop(service), "stop", 0)

NextService == ApiServiceStart \/ ApiServiceStop

SpecService == InitService /\ [][NextService]_vars

(***************************************************************************)
(* Claims about LiberationAIProxyService (SpecService).                    *)
(***************************************************************************)
\* The servers of the service that are bound and serving.
ServingServers == {n \in 1..Len(service.servers) : service.servers[n] = "serving"}
QuietEnv == [port_busy |-> FALSE, thread_fails |-> FALSE]

====
